---- MODULE Spec2Model ----
(***************************************************************************)
(* Model of the log-retrieval core of aws-loggy (src-tauri/src/lib.rs):    *)
(*   - the credential session (AppState, init_aws_client, reconnect_aws)   *)
(*     with the commands that hold the client mutex (list_log_groups,      *)
(*     fetch_logs, fetch_logs_paginated);                                  *)
(*   - the bulk fetch loop of fetch_logs, the listing loop of              *)
(*     list_log_groups and the single request of fetch_logs_paginated;     *)
(*   - the error texts: is_sso_session_expired and humanize_aws_error;     *)
(*   - one init_aws_client / reconnect_aws call with its credential check, *)
(*     its probe and the SSO login it may start;                           *)
(*   - the credential poll started by open_sso_login_url;                  *)
(*   - the Err(e) branch of the three fetch/list commands over composed    *)
(*     failure texts;                                                      *)
(*   - the five commands lock by lock, with the mutexes of the three       *)
(*     session fields;                                                     *)
(*   - a caller that pages through a query with fetch_logs_paginated,      *)
(*     beside one fetch_logs call for the same query.                      *)
(* Option<T> is a sequence of length 0 (None) or 1 (Some(x)); a String is  *)
(* a TLA+ string, taken apart with Len, SubSeq and \o.                     *)
(***************************************************************************)
EXTENDS Integers, Sequences, FiniteSets, TLC

VARIABLES
    \* ---- AppState (lib.rs 44-48) ----
    client,           \* Option<CloudWatchClient>
    config,           \* Option<SdkConfig>
    current_profile,  \* Option<String>
    client_lock,      \* task holding the guard of AppState.client, 0 when free
    \* ---- process environment ----
    AWS_PROFILE,      \* std::env::var("AWS_PROFILE").ok()
    \* ---- one record per command invocation (task) ----
    pc,               \* position of the task in its command
    op,               \* the command the task runs (or ran last)
    effective_profile,\* local `effective_profile` of init_aws_client / reconnect_aws
    call,             \* number of the invocation: names the config/client objects it builds
    result,           \* what the command returned ("none" while it runs)
    nextCall,         \* invocations started so far + 1
    \* ---- history variables (not program state) ----
    profile_call,     \* the invocation that stored current_profile (0: nobody)
    session0,         \* <<client, config, current_profile>> when the task's command began
    disturbed,        \* another task wrote a session field since the task's command began
    \* ---- fetch_logs (lib.rs 797-914) ----
    source,           \* the remote: a sequence of pages, each a sequence of message lengths
    max_count,        \* argument max_count: Option<i32>
    max_size_mb,      \* argument max_size_mb: Option<i32>
    fpc,              \* position in fetch_logs
    all_events,       \* Vec<LogEvent>: <<page, index, message length>>
    total_size,       \* usize
    next_token,       \* Option<String>: the number of the next page
    requests,         \* remote requests sent by this call
    emitted,          \* logs-progress / logs-truncated events emitted, in order
    fresult,          \* what fetch_logs returned: "none" | "ok" | "err" | "not_initialized"
    \* ---- list_log_groups (lib.rs 732-777) ----
    remote_groups,    \* the remote: a sequence of pages, each a number of log groups
    lpc,              \* position in list_log_groups
    log_groups,       \* Vec<LogGroup>: <<page, index>>
    list_token,       \* local next_token: Option<String>, the number of the next page
    list_sent,        \* the token of every request sent by this call, in order
    lresult,          \* what list_log_groups returned
    \* ---- fetch_logs_paginated (lib.rs 918-969) ----
    ppc,              \* position in fetch_logs_paginated
    cursor,           \* argument next_token: Option<String>
    page_sent,        \* the token of every request sent by this call, in order
    page_ret,         \* the pair (events, new_token) of an Ok return, <<>> otherwise
    presult,          \* what fetch_logs_paginated returned
    chained,          \* caller of fetch_logs_paginated: the events of the calls
                      \* it made before, concatenated in order
    \* ---- the Err(e) branch of the three commands ----
    error_msg,        \* local error_msg of the failed request: Option<String>
    err,              \* the String of the Err the command returned: Option<String>
    reauth,           \* processes started, tasks spawned and events emitted by
                      \* open_sso_login_url / handle_sso_expiration, in order
    \* ---- one init_aws_client / reconnect_aws call, step by step ----
    cpc,              \* position in the command
    cop,              \* "init" | "reconnect"
    c_profile,        \* local effective_profile
    creds,            \* the credential step: "unchecked" | "missing" | "failed" | "ok"
    cred_error,       \* <<error_msg, error_debug, error_source>> of a failed
                      \* provide_credentials, <<>> otherwise
    uses_sso,         \* profile_uses_sso(effective_profile)
    probes,           \* describe_log_groups requests sent by this call
    cresult,          \* what the command returned: Option<String> ("ok" or the Err)
    \* ---- poll_for_credentials_and_refresh (lib.rs 190-212) ----
    qpc,              \* position in the poll
    max_attempts,     \* argument max_attempts: u32
    valid_at,         \* the check from which the credentials are valid (0: never)
    attempt,          \* loop variable of `for attempt in 1..=max_attempts`
    checks,           \* calls of check_credentials_valid made so far
    poll_emitted,     \* events emitted by the poll, in order
    \* ---- the mutexes of AppState.config and AppState.current_profile ----
    config_lock,      \* task holding the guard of AppState.config, 0 when free
    profile_lock,     \* task holding the guard of AppState.current_profile
    \* ---- history variable (not program state) ----
    touched           \* per task: the session fields its command has locked, in order

svars == <<client, config, current_profile, client_lock, AWS_PROFILE, pc, op,
           effective_profile, call, result, nextCall, profile_call, session0,
           disturbed>>
fvars == <<source, max_count, max_size_mb, fpc, all_events, total_size,
           next_token, requests, emitted, fresult>>
lvars == <<remote_groups, lpc, log_groups, list_token, list_sent, lresult>>
pvars == <<ppc, cursor, page_sent, page_ret, presult, chained>>
evars == <<error_msg, err, reauth>>
cvars == <<cpc, cop, c_profile, creds, cred_error, uses_sso, probes, cresult>>
qvars == <<qpc, max_attempts, valid_at, attempt, checks, poll_emitted>>
mvars == <<config_lock, profile_lock, touched>>
\* everything but the session and fetch_logs
ovars == <<lvars, pvars, evars, cvars, qvars, mvars>>
vars == <<svars, fvars, ovars>>

None == << >>
Some(x) == <<x>>
Option(S) == {None} \cup {Some(x) : x \in S}

\* ---- bounds of the session model ----
\* invocations of init_aws_client / reconnect_aws in one behaviour
MaxCalls == 2

\* Two concurrent callers: every race of the session needs exactly two.
Tasks == {1, 2}
Profiles == {"dev"}
EnvProfiles == {"env"}

\* An SdkConfig loaded for a profile by one invocation; the client built from it
\* (CloudWatchClient::new(&config)) is named by the same record.
ConfigOf(p) == [profile |-> effective_profile[p], call |-> call[p]]

CredOutcomes == {"ok", "no_provider", "expired", "other"}
ProbeOutcomes == {"ok", "expired", "access_denied", "other"}
Errors == {"err_no_provider", "err_expired", "err_credentials",
           "err_access_denied", "err_connect"}

Session == <<client, config, current_profile>>

\* Another task's write to a session field is recorded for every running
\* init_aws_client / reconnect_aws invocation.
Disturb(p) ==
    [q \in Tasks |-> IF q # p /\ pc[q] \notin {"idle", "done"}
                     THEN TRUE ELSE disturbed[q]]

Begin(p, o, eff) ==
    /\ pc[p] = "idle"
    /\ nextCall <= MaxCalls
    /\ op' = [op EXCEPT ![p] = o]
    /\ effective_profile' = [effective_profile EXCEPT ![p] = eff]
    /\ call' = [call EXCEPT ![p] = nextCall]
    /\ nextCall' = nextCall + 1
    /\ result' = [result EXCEPT ![p] = "none"]
    /\ session0' = [session0 EXCEPT ![p] = Session]
    /\ disturbed' = [disturbed EXCEPT ![p] = FALSE]

\* The command returns r to its caller.
Return(p, r) ==
    /\ pc' = [pc EXCEPT ![p] = "done"]
    /\ result' = [result EXCEPT ![p] = r]

\* ------------------------------------------------------------------
\* init_aws_client (lib.rs 467-587)
\* ------------------------------------------------------------------

\* lib.rs 480-482: provided profile, else the environment variable
InitEffectiveProfile(hint) == IF hint # None THEN hint ELSE AWS_PROFILE

\* lib.rs 472-483
InitStart(p, hint) ==
    /\ Begin(p, "init", InitEffectiveProfile(hint))
    /\ pc' = [pc EXCEPT ![p] = "creds"]
    /\ UNCHANGED <<client, config, current_profile, client_lock, AWS_PROFILE,
                   profile_call>>
    /\ UNCHANGED <<fvars, ovars>>

\* What the credential check returns (lib.rs 486-538 and 627-679).
CredsResult(outcome) ==
    CASE outcome = "no_provider" -> "err_no_provider"
      [] outcome = "expired" -> "err_expired"
      [] outcome = "other" -> "err_credentials"
      [] OTHER -> "none"

\* What a failed probe returns (lib.rs 562-585 and 702-726).
ProbeResult(outcome) ==
    CASE outcome = "expired" -> "err_expired"
      [] outcome = "access_denied" -> "err_access_denied"
      [] OTHER -> "err_connect"

\* lib.rs 486-538: an error returns without touching AppState
InitCredsFails(p, outcome) ==
    /\ Return(p, CredsResult(outcome))
    /\ UNCHANGED <<client, config, current_profile, client_lock, profile_call,
                   disturbed>>

InitCreds(p, outcome) ==
    /\ pc[p] = "creds" /\ op[p] = "init"
    /\ IF outcome = "ok"
       THEN /\ pc' = [pc EXCEPT ![p] = "probe"]
            /\ UNCHANGED <<client, config, current_profile, client_lock,
                           profile_call, disturbed, result>>
       ELSE InitCredsFails(p, outcome)
    /\ UNCHANGED <<AWS_PROFILE, op, effective_profile, call, nextCall, session0>>
    /\ UNCHANGED <<fvars, ovars>>

\* A connect that, like reconnect_aws, drops the session when its probe fails.
InitProbeFailsClearing(p, outcome) ==
    /\ Return(p, ProbeResult(outcome))
    /\ client' = None
    /\ config' = None
    /\ disturbed' = Disturb(p)
    /\ UNCHANGED <<current_profile, client_lock, profile_call>>

\* lib.rs 562-585: an error returns without touching AppState
InitProbeFails(p, outcome) ==
    /\ Return(p, ProbeResult(outcome))
    /\ UNCHANGED <<client, config, current_profile, client_lock, profile_call,
                   disturbed>>

\* lib.rs 541-543, 562-586
InitProbe(p, outcome) ==
    /\ pc[p] = "probe" /\ op[p] = "init"
    /\ IF outcome = "ok"
       THEN /\ pc' = [pc EXCEPT ![p] = "store_profile"]
            /\ UNCHANGED <<client, config, current_profile, client_lock,
                           profile_call, disturbed, result>>
       ELSE InitProbeFails(p, outcome)
    /\ UNCHANGED <<AWS_PROFILE, op, effective_profile, call, nextCall, session0>>
    /\ UNCHANGED <<fvars, ovars>>

\* lib.rs 546-548 and 687-689
StoreProfile(p) ==
    /\ pc[p] = "store_profile"
    /\ current_profile' = effective_profile[p]
    /\ profile_call' = call[p]
    /\ disturbed' = Disturb(p)
    /\ pc' = [pc EXCEPT ![p] = "store_config"]
    /\ UNCHANGED <<client, config, client_lock, AWS_PROFILE, op,
                   effective_profile, call, result, nextCall, session0>>
    /\ UNCHANGED <<fvars, ovars>>

\* lib.rs 551-553 and 691-693
StoreConfig(p) ==
    /\ pc[p] = "store_config"
    /\ config' = Some(ConfigOf(p))
    /\ disturbed' = Disturb(p)
    /\ pc' = [pc EXCEPT ![p] = "store_client"]
    /\ UNCHANGED <<client, current_profile, client_lock, AWS_PROFILE, op,
                   effective_profile, call, result, nextCall, profile_call,
                   session0>>
    /\ UNCHANGED <<fvars, ovars>>

\* lib.rs 555-560 and 695-700: the guard is dropped when the command returns
StoreClient(p) ==
    /\ pc[p] = "store_client"
    /\ client_lock = 0
    /\ client' = Some(ConfigOf(p))
    /\ disturbed' = Disturb(p)
    /\ Return(p, "ok")
    /\ UNCHANGED <<config, current_profile, client_lock, AWS_PROFILE, op,
                   effective_profile, call, nextCall, profile_call, session0>>
    /\ UNCHANGED <<fvars, ovars>>

\* ------------------------------------------------------------------
\* reconnect_aws (lib.rs 593-728)
\* ------------------------------------------------------------------

\* lib.rs 599-605: provided > stored > environment
ReconnectEffectiveProfile(hint) ==
    IF hint # None THEN hint
    ELSE IF current_profile # None THEN current_profile ELSE AWS_PROFILE

\* lib.rs 598-605
ReconnectStart(p, hint) ==
    /\ Begin(p, "reconnect", ReconnectEffectiveProfile(hint))
    /\ pc' = [pc EXCEPT ![p] = "clear_client"]
    /\ UNCHANGED <<client, config, current_profile, client_lock, AWS_PROFILE,
                   profile_call>>
    /\ UNCHANGED <<fvars, ovars>>

\* A reconnect that forgets to drop the previous client.
ReconnectKeepClient(p) ==
    /\ pc[p] = "clear_client"
    /\ client_lock = 0
    /\ pc' = [pc EXCEPT ![p] = "clear_config"]
    /\ UNCHANGED <<client, config, current_profile, client_lock, AWS_PROFILE, op,
                   effective_profile, call, result, nextCall, profile_call,
                   session0, disturbed>>
    /\ UNCHANGED <<fvars, ovars>>

\* lib.rs 608-611
ReconnectClearClient(p) ==
    /\ pc[p] = "clear_client"
    /\ client_lock = 0
    /\ client' = None
    /\ disturbed' = Disturb(p)
    /\ pc' = [pc EXCEPT ![p] = "clear_config"]
    /\ UNCHANGED <<config, current_profile, client_lock, AWS_PROFILE, op,
                   effective_profile, call, result, nextCall, profile_call,
                   session0>>
    /\ UNCHANGED <<fvars, ovars>>

\* lib.rs 612-615
ReconnectClearConfig(p) ==
    /\ pc[p] = "clear_config"
    /\ config' = None
    /\ disturbed' = Disturb(p)
    /\ pc' = [pc EXCEPT ![p] = "creds"]
    /\ UNCHANGED <<client, current_profile, client_lock, AWS_PROFILE, op,
                   effective_profile, call, result, nextCall, profile_call,
                   session0>>
    /\ UNCHANGED <<fvars, ovars>>

\* lib.rs 618-679
ReconnectCreds(p, outcome) ==
    /\ pc[p] = "creds" /\ op[p] = "reconnect"
    /\ IF outcome = "ok"
       THEN /\ pc' = [pc EXCEPT ![p] = "probe"]
            /\ UNCHANGED result
       ELSE Return(p, CredsResult(outcome))
    /\ UNCHANGED <<client, config, current_profile, client_lock, AWS_PROFILE,
                   op, effective_profile, call, nextCall, profile_call,
                   session0, disturbed>>
    /\ UNCHANGED <<fvars, ovars>>

\* lib.rs 682-684, 702-727
ReconnectProbe(p, outcome) ==
    /\ pc[p] = "probe" /\ op[p] = "reconnect"
    /\ IF outcome = "ok"
       THEN /\ pc' = [pc EXCEPT ![p] = "store_profile"]
            /\ UNCHANGED result
       ELSE Return(p, ProbeResult(outcome))
    /\ UNCHANGED <<client, config, current_profile, client_lock, AWS_PROFILE,
                   op, effective_profile, call, nextCall, profile_call,
                   session0, disturbed>>
    /\ UNCHANGED <<fvars, ovars>>

\* ------------------------------------------------------------------
\* list_log_groups / fetch_logs / fetch_logs_paginated as users of the
\* client mutex (lib.rs 736-737, 807-808, 927-928): the guard is taken
\* first and held until the command returns.
\* ------------------------------------------------------------------
ReadStart(p) ==
    /\ pc[p] = "idle"
    /\ client_lock = 0
    /\ op' = [op EXCEPT ![p] = "read"]
    /\ IF client = None
       THEN /\ Return(p, "not_initialized")
            /\ UNCHANGED client_lock
       ELSE /\ result' = [result EXCEPT ![p] = "none"]
            /\ pc' = [pc EXCEPT ![p] = "reading"]
            /\ client_lock' = p
    /\ UNCHANGED <<client, config, current_profile, AWS_PROFILE,
                   effective_profile, call, nextCall, profile_call, session0,
                   disturbed>>
    /\ UNCHANGED <<fvars, ovars>>

ReadEnd(p, r) ==
    /\ pc[p] = "reading"
    /\ client_lock' = 0
    /\ Return(p, r)
    /\ UNCHANGED <<client, config, current_profile, AWS_PROFILE, op,
                   effective_profile, call, nextCall, profile_call, session0,
                   disturbed>>
    /\ UNCHANGED <<fvars, ovars>>

\* The caller has taken the result: the task is free for the next command.
Finish(p) ==
    /\ pc[p] = "done"
    /\ pc' = [pc EXCEPT ![p] = "idle"]
    /\ op' = [op EXCEPT ![p] = "none"]
    /\ result' = [result EXCEPT ![p] = "none"]
    /\ effective_profile' = [effective_profile EXCEPT ![p] = None]
    /\ call' = [call EXCEPT ![p] = 0]
    /\ session0' = [session0 EXCEPT ![p] = <<None, None, None>>]
    /\ disturbed' = [disturbed EXCEPT ![p] = FALSE]
    /\ UNCHANGED <<client, config, current_profile, client_lock, AWS_PROFILE,
                   nextCall, profile_call>>
    /\ UNCHANGED <<fvars, ovars>>

\* lib.rs 50-58: AppState::default()
InitSession ==
    /\ client = None
    /\ config = None
    /\ current_profile = None
    /\ client_lock = 0
    /\ AWS_PROFILE \in Option(EnvProfiles)
    /\ pc = [p \in Tasks |-> "idle"]
    /\ op = [p \in Tasks |-> "none"]
    /\ effective_profile = [p \in Tasks |-> None]
    /\ call = [p \in Tasks |-> 0]
    /\ result = [p \in Tasks |-> "none"]
    /\ nextCall = 1
    /\ profile_call = 0
    /\ session0 = [p \in Tasks |-> <<None, None, None>>]
    /\ disturbed = [p \in Tasks |-> FALSE]

FetchIdle ==
    /\ source = << >>
    /\ max_count = None
    /\ max_size_mb = None
    /\ fpc = "idle"
    /\ all_events = << >>
    /\ total_size = 0
    /\ next_token = None
    /\ requests = 0
    /\ emitted = << >>
    /\ fresult = "none"

\* list_log_groups is not running.
ListOff ==
    /\ remote_groups = << >>
    /\ lpc = "off"
    /\ log_groups = << >>
    /\ list_token = None
    /\ list_sent = << >>
    /\ lresult = "none"

\* fetch_logs_paginated is not running.
PageOff ==
    /\ ppc = "off"
    /\ cursor = None
    /\ page_sent = << >>
    /\ page_ret = << >>
    /\ presult = "none"
    /\ chained = << >>

\* No request has failed.
ErrIdle ==
    /\ error_msg = None
    /\ err = None
    /\ reauth = << >>

\* The step-by-step init_aws_client / reconnect_aws call is not running.
ConnOff ==
    /\ cpc = "off"
    /\ cop = "none"
    /\ c_profile = None
    /\ creds = "unchecked"
    /\ cred_error = << >>
    /\ uses_sso = FALSE
    /\ probes = 0
    /\ cresult = None

\* No poll is running.
PollOff ==
    /\ qpc = "off"
    /\ max_attempts = 0
    /\ valid_at = 0
    /\ attempt = 0
    /\ checks = 0
    /\ poll_emitted = << >>

\* The guards of config and current_profile are free and no running command
\* has locked a field.
LocksOff ==
    /\ config_lock = 0
    /\ profile_lock = 0
    /\ touched = [p \in Tasks |-> << >>]

NextSession ==
    \E p \in Tasks :
        \/ \E hint \in Option(Profiles) : InitStart(p, hint)
        \/ \E o \in CredOutcomes : InitCreds(p, o)
        \/ \E o \in ProbeOutcomes : InitProbe(p, o)
        \/ StoreProfile(p)
        \/ StoreConfig(p)
        \/ StoreClient(p)
        \/ \E hint \in Option(Profiles) : ReconnectStart(p, hint)
        \/ ReconnectClearClient(p)
        \/ ReconnectClearConfig(p)
        \/ \E o \in CredOutcomes : ReconnectCreds(p, o)
        \/ \E o \in ProbeOutcomes : ReconnectProbe(p, o)
        \/ ReadStart(p)
        \/ \E r \in {"ok", "err_remote"} : ReadEnd(p, r)
        \/ Finish(p)

InitS ==
    InitSession /\ FetchIdle /\ ListOff /\ PageOff /\ ErrIdle /\ ConnOff /\ PollOff
    /\ LocksOff

SpecSession == InitS /\ [][NextSession]_vars

\* ==================================================================
\* The five commands lock by lock: every state.<field>.lock().await is a
\* step of its own, the access under the guard and the drop of the guard
\* another (lib.rs 544-556, 598-615, 685-696, 736-737, 807-808, 927-928,
\* 320-340)
\* ==================================================================

\* The three Arc<Mutex<..>> of AppState (lib.rs 44-48)
Fields == {"current_profile", "config", "client"}

\* The task holding the guard of a field, 0 when the mutex is free.
Holder(f) ==
    CASE f = "client" -> client_lock
      [] f = "config" -> config_lock
      [] OTHER -> profile_lock

\* tokio::sync::Mutex::lock().await at position `from`: the task goes on to
\* `to` once the mutex is free, holding the guard.
Acquire(p, f, from, to) ==
    /\ pc[p] = from
    /\ Holder(f) = 0
    /\ client_lock' = (IF f = "client" THEN p ELSE client_lock)
    /\ config_lock' = (IF f = "config" THEN p ELSE config_lock)
    /\ profile_lock' = (IF f = "current_profile" THEN p ELSE profile_lock)
    /\ touched' = [touched EXCEPT ![p] = Append(@, f)]
    /\ pc' = [pc EXCEPT ![p] = to]
    /\ UNCHANGED <<client, config, current_profile, AWS_PROFILE, op,
                   effective_profile, call, result, nextCall, profile_call,
                   session0, disturbed>>
    /\ UNCHANGED <<fvars, lvars, pvars, evars, cvars, qvars>>

\* lib.rs 472-483 and 598-600: the command is called; a reconnect_aws without
\* a hint reads the stored profile first. The invocations are counted, not
\* numbered: the objects a call builds are told apart by their profile.
GuardedStart(p, o, hint) ==
    /\ pc[p] = "idle"
    /\ nextCall <= MaxCalls
    /\ op' = [op EXCEPT ![p] = o]
    /\ effective_profile' =
          [effective_profile EXCEPT
              ![p] = IF o = "init" THEN InitEffectiveProfile(hint) ELSE hint]
    /\ nextCall' = nextCall + 1
    /\ pc' = [pc EXCEPT ![p] = IF o = "init" THEN "validate"
                               ELSE IF hint # None THEN "clear_lock_client"
                               ELSE "read_lock_profile"]
    /\ UNCHANGED <<client, config, current_profile, client_lock, AWS_PROFILE,
                   call, result, profile_call, session0, disturbed>>
    /\ UNCHANGED <<fvars, lvars, pvars, evars, cvars, qvars, mvars>>

\* lib.rs 602
ReadLockProfile(p) ==
    Acquire(p, "current_profile", "read_lock_profile", "read_profile")

\* The guard of current_profile is kept after the read.
ReadProfileKeepsGuard(p) ==
    /\ pc[p] = "read_profile"
    /\ effective_profile' =
          [effective_profile EXCEPT
              ![p] = IF current_profile # None THEN current_profile
                     ELSE AWS_PROFILE]
    /\ pc' = [pc EXCEPT ![p] = "clear_lock_client"]
    /\ UNCHANGED <<client, config, current_profile, client_lock, AWS_PROFILE,
                   op, call, result, nextCall, profile_call, session0,
                   disturbed>>
    /\ UNCHANGED <<fvars, lvars, pvars, evars, cvars, qvars, mvars>>

\* lib.rs 602-604: stored, else the environment; the guard `stored` is dropped
\* at the end of the match arm
ReadProfile(p) ==
    /\ pc[p] = "read_profile"
    /\ effective_profile' =
          [effective_profile EXCEPT
              ![p] = IF current_profile # None THEN current_profile
                     ELSE AWS_PROFILE]
    /\ profile_lock' = 0
    /\ pc' = [pc EXCEPT ![p] = "clear_lock_client"]
    /\ UNCHANGED <<client, config, current_profile, client_lock, AWS_PROFILE,
                   op, call, result, nextCall, profile_call, session0,
                   disturbed>>
    /\ UNCHANGED <<config_lock, touched>>
    /\ UNCHANGED <<fvars, lvars, pvars, evars, cvars, qvars>>

\* lib.rs 609
ClearLockClient(p) == Acquire(p, "client", "clear_lock_client", "clear_client")

\* lib.rs 610-611
ClearClient(p) ==
    /\ pc[p] = "clear_client"
    /\ client' = None
    /\ client_lock' = 0
    /\ pc' = [pc EXCEPT ![p] = "clear_lock_config"]
    /\ UNCHANGED <<config, current_profile, AWS_PROFILE, op, effective_profile,
                   call, result, nextCall, profile_call, session0, disturbed>>
    /\ UNCHANGED <<fvars, lvars, pvars, evars, cvars, qvars, mvars>>

\* lib.rs 613
ClearLockConfig(p) == Acquire(p, "config", "clear_lock_config", "clear_config")

\* lib.rs 614-615
ClearConfig(p) ==
    /\ pc[p] = "clear_config"
    /\ config' = None
    /\ config_lock' = 0
    /\ pc' = [pc EXCEPT ![p] = "validate"]
    /\ UNCHANGED <<client, current_profile, client_lock, AWS_PROFILE, op,
                   effective_profile, call, result, nextCall, profile_call,
                   session0, disturbed>>
    /\ UNCHANGED <<profile_lock, touched>>
    /\ UNCHANGED <<fvars, lvars, pvars, evars, cvars, qvars>>

\* lib.rs 486-543, 562-586 and 618-684, 702-727: the credential check and the
\* probe, with no guard held; a failure returns
Validate(p, ok) ==
    /\ pc[p] = "validate"
    /\ IF ok
       THEN /\ pc' = [pc EXCEPT ![p] = "store_lock_profile"]
            /\ UNCHANGED result
       ELSE Return(p, "err_connect")
    /\ UNCHANGED <<client, config, current_profile, client_lock, AWS_PROFILE,
                   op, effective_profile, call, nextCall, profile_call,
                   session0, disturbed>>
    /\ UNCHANGED <<fvars, lvars, pvars, evars, cvars, qvars, mvars>>

\* lib.rs 546 and 687
StoreLockProfile(p) ==
    Acquire(p, "current_profile", "store_lock_profile", "store_profile")

\* lib.rs 547-548 and 688-689
StoreProfileGuarded(p) ==
    /\ pc[p] = "store_profile"
    /\ profile_lock = p
    /\ current_profile' = effective_profile[p]
    /\ profile_call' = call[p]
    /\ profile_lock' = 0
    /\ pc' = [pc EXCEPT ![p] = "store_lock_config"]
    /\ UNCHANGED <<client, config, client_lock, AWS_PROFILE, op,
                   effective_profile, call, result, nextCall, session0,
                   disturbed>>
    /\ UNCHANGED <<config_lock, touched>>
    /\ UNCHANGED <<fvars, lvars, pvars, evars, cvars, qvars>>

\* lib.rs 551 and 691
StoreLockConfig(p) ==
    Acquire(p, "config", "store_lock_config", "store_config")

\* lib.rs 552-553 and 692-693
StoreConfigGuarded(p) ==
    /\ pc[p] = "store_config"
    /\ config_lock = p
    /\ config' = Some(ConfigOf(p))
    /\ config_lock' = 0
    /\ pc' = [pc EXCEPT ![p] = "store_lock_client"]
    /\ UNCHANGED <<client, current_profile, client_lock, AWS_PROFILE, op,
                   effective_profile, call, result, nextCall, profile_call,
                   session0, disturbed>>
    /\ UNCHANGED <<profile_lock, touched>>
    /\ UNCHANGED <<fvars, lvars, pvars, evars, cvars, qvars>>

\* lib.rs 555 and 695
StoreLockClient(p) ==
    Acquire(p, "client", "store_lock_client", "store_client")

\* lib.rs 556-560 and 696-700: the guard is dropped when the command returns
StoreClientGuarded(p) ==
    /\ pc[p] = "store_client"
    /\ client_lock = p
    /\ client' = Some(ConfigOf(p))
    /\ client_lock' = 0
    /\ Return(p, "ok")
    /\ UNCHANGED <<config, current_profile, AWS_PROFILE, op, effective_profile,
                   call, nextCall, profile_call, session0, disturbed>>
    /\ UNCHANGED <<fvars, lvars, pvars, evars, cvars, qvars, mvars>>

\* list_log_groups, fetch_logs or fetch_logs_paginated is called
\* (lib.rs 732, 797, 918).
ReaderStart(p) ==
    /\ pc[p] = "idle"
    /\ op' = [op EXCEPT ![p] = "read"]
    /\ pc' = [pc EXCEPT ![p] = "reader_lock_client"]
    /\ UNCHANGED <<client, config, current_profile, client_lock, AWS_PROFILE,
                   effective_profile, call, result, nextCall, profile_call,
                   session0, disturbed>>
    /\ UNCHANGED <<fvars, lvars, pvars, evars, cvars, qvars, mvars>>

\* lib.rs 736, 807, 927
ReaderLockClient(p) ==
    Acquire(p, "client", "reader_lock_client", "reader_check")

\* lib.rs 737, 808, 928: `?` returns, which drops the guard
ReaderCheck(p) ==
    /\ pc[p] = "reader_check"
    /\ IF client = None
       THEN /\ Return(p, "not_initialized")
            /\ client_lock' = 0
       ELSE /\ pc' = [pc EXCEPT ![p] = "send"]
            /\ UNCHANGED <<result, client_lock>>
    /\ UNCHANGED <<client, config, current_profile, AWS_PROFILE, op,
                   effective_profile, call, nextCall, profile_call, session0,
                   disturbed>>
    /\ UNCHANGED <<fvars, lvars, pvars, evars, cvars, qvars, mvars>>

\* lib.rs 745-747, 838, 950: request.send(), the guard of client held
ReaderSend(p) ==
    /\ pc[p] = "send"
    /\ pc' = [pc EXCEPT ![p] = "await"]
    /\ UNCHANGED <<client, config, current_profile, client_lock, AWS_PROFILE,
                   op, effective_profile, call, result, nextCall, profile_call,
                   session0, disturbed>>
    /\ UNCHANGED <<fvars, lvars, pvars, evars, cvars, qvars, mvars>>

ReaderOutcomes == {"more", "last", "error", "expired"}

\* lib.rs 748-774, 839-911, 951-968: a page with a token (the loop goes on), the
\* last page, a failure, a failure that is_sso_session_expired recognizes
ReaderResponse(p, outcome) ==
    /\ pc[p] = "await"
    /\ CASE outcome = "more" ->
              /\ pc' = [pc EXCEPT ![p] = "send"]
              /\ UNCHANGED <<result, client_lock>>
         [] outcome = "expired" ->
              /\ pc' = [pc EXCEPT ![p] = "reauth_lock_profile"]
              /\ UNCHANGED <<result, client_lock>>
         [] OTHER ->
              /\ Return(p, IF outcome = "last" THEN "ok" ELSE "err_connect")
              /\ client_lock' = 0
    /\ UNCHANGED <<client, config, current_profile, AWS_PROFILE, op,
                   effective_profile, call, nextCall, profile_call, session0,
                   disturbed>>
    /\ UNCHANGED <<fvars, lvars, pvars, evars, cvars, qvars, mvars>>

\* lib.rs 329: handle_sso_expiration(.., None) locks current_profile
ReauthLockProfile(p) ==
    Acquire(p, "current_profile", "reauth_lock_profile", "reauth_profile")

\* lib.rs 329: the clone is taken and the temporary guard dropped
ReauthProfile(p) ==
    /\ pc[p] = "reauth_profile"
    /\ profile_lock' = 0
    /\ pc' = [pc EXCEPT ![p] = "reauth_login"]
    /\ UNCHANGED <<client, config, current_profile, client_lock, AWS_PROFILE,
                   op, effective_profile, call, result, nextCall, profile_call,
                   session0, disturbed>>
    /\ UNCHANGED <<config_lock, touched>>
    /\ UNCHANGED <<fvars, lvars, pvars, evars, cvars, qvars>>

\* lib.rs 333-339 and 771, 908, 966: the login, the event, then the command
\* returns its error, which drops the guard of client
ReauthReturn(p) ==
    /\ pc[p] = "reauth_login"
    /\ Return(p, "err_expired")
    /\ client_lock' = 0
    /\ UNCHANGED <<client, config, current_profile, AWS_PROFILE, op,
                   effective_profile, call, nextCall, profile_call, session0,
                   disturbed>>
    /\ UNCHANGED <<fvars, lvars, pvars, evars, cvars, qvars, mvars>>

\* The caller has taken the result: the task is free for the next command.
GuardedFinish(p) ==
    /\ pc[p] = "done"
    /\ pc' = [pc EXCEPT ![p] = "idle"]
    /\ op' = [op EXCEPT ![p] = "none"]
    /\ result' = [result EXCEPT ![p] = "none"]
    /\ effective_profile' = [effective_profile EXCEPT ![p] = None]
    /\ touched' = [touched EXCEPT ![p] = << >>]
    /\ UNCHANGED <<client, config, current_profile, client_lock, AWS_PROFILE,
                   call, nextCall, profile_call, session0, disturbed>>
    /\ UNCHANGED <<config_lock, profile_lock>>
    /\ UNCHANGED <<fvars, lvars, pvars, evars, cvars, qvars>>

\* A step of task p that takes a mutex.
Locks(p) ==
    \/ ReadLockProfile(p)
    \/ ClearLockClient(p)
    \/ ClearLockConfig(p)
    \/ StoreLockProfile(p)
    \/ StoreLockConfig(p)
    \/ StoreLockClient(p)
    \/ ReaderLockClient(p)
    \/ ReauthLockProfile(p)

\* A step of a command of task p that is under way and waits for no mutex.
Runs(p) ==
    \/ ReadProfile(p)
    \/ ClearClient(p)
    \/ ClearConfig(p)
    \/ \E ok \in BOOLEAN : Validate(p, ok)
    \/ StoreProfileGuarded(p)
    \/ StoreConfigGuarded(p)
    \/ StoreClientGuarded(p)
    \/ ReaderCheck(p)
    \/ ReaderSend(p)
    \/ \E outcome \in ReaderOutcomes : ReaderResponse(p, outcome)
    \/ ReauthProfile(p)
    \/ ReauthReturn(p)

NextLocks ==
    \E p \in Tasks :
        \/ \E o \in {"init", "reconnect"} : \E hint \in Option(Profiles) :
              GuardedStart(p, o, hint)
        \/ ReaderStart(p)
        \/ Locks(p)
        \/ Runs(p)
        \/ GuardedFinish(p)

SpecLocks == InitS /\ [][NextLocks]_vars

\* tokio polls every spawned command: a command that can go on does, a remote
\* request returns, the mutex, which queues its waiters first come first
\* served, is given to a task that keeps asking for it, and a query has
\* finitely many pages.
SpecLocksFair ==
    /\ SpecLocks
    /\ \A p \in Tasks :
          /\ WF_vars(Runs(p))
          /\ SF_vars(Locks(p))
          /\ SF_vars(\E outcome \in ReaderOutcomes \ {"more"} :
                        ReaderResponse(p, outcome))

\* ==================================================================
\* Error texts (lib.rs 293-317, 343-447)
\* ==================================================================

UpperCase == "ABCDEFGHIJKLMNOPQRSTUVWXYZ"
LowerCase == "abcdefghijklmnopqrstuvwxyz"

\* char::to_lowercase on the ASCII range
LowerChar(c) ==
    IF \E i \in 1..Len(UpperCase) : SubSeq(UpperCase, i, i) = c
    THEN LET i == CHOOSE j \in 1..Len(UpperCase) : SubSeq(UpperCase, j, j) = c
         IN  SubSeq(LowerCase, i, i)
    ELSE c

RECURSIVE to_lowercase(_)
\* str::to_lowercase (lib.rs 295, 344)
to_lowercase(s) ==
    IF Len(s) = 0 THEN ""
    ELSE LowerChar(SubSeq(s, 1, 1)) \o to_lowercase(SubSeq(s, 2, Len(s)))

\* str::contains with a &str pattern
contains(s, pat) ==
    \E i \in 1..(Len(s) - Len(pat) + 1) : SubSeq(s, i, i + Len(pat) - 1) = pat

RECURSIVE replace(_, _, _)
\* str::replace: every non-overlapping match, from the left (lib.rs 436-438)
replace(s, from, to) ==
    IF Len(s) < Len(from) THEN s
    ELSE IF SubSeq(s, 1, Len(from)) = from
         THEN to \o replace(SubSeq(s, Len(from) + 1, Len(s)), from, to)
         ELSE SubSeq(s, 1, 1) \o replace(SubSeq(s, 2, Len(s)), from, to)

RECURSIVE trim_start_matches(_, _)
trim_start_matches(s, cs) ==
    IF Len(s) > 0 /\ SubSeq(s, 1, 1) \in cs
    THEN trim_start_matches(SubSeq(s, 2, Len(s)), cs)
    ELSE s

RECURSIVE trim_end_matches(_, _)
trim_end_matches(s, cs) ==
    IF Len(s) > 0 /\ SubSeq(s, Len(s), Len(s)) \in cs
    THEN trim_end_matches(SubSeq(s, 1, Len(s) - 1), cs)
    ELSE s

\* str::trim_matches (lib.rs 439)
trim_matches(s, cs) == trim_end_matches(trim_start_matches(s, cs), cs)

\* lib.rs 293-317
is_sso_session_expired(text) ==
    LET error_lower == to_lowercase(text)
    IN  \/ contains(error_lower, "token has expired")
        \/ contains(error_lower, "sso session")
        \/ contains(error_lower, "refresh token")
        \/ contains(error_lower, "re-authenticate")
        \/ contains(error_lower, "accessdeniedexception")
        \/ contains(error_lower, "invalid_grant")
        \/ contains(error_lower, "expired sso token")
        \/ contains(error_lower, "sso token")
        \/ (contains(error_lower, "credential") /\ contains(error_lower, "expired"))
        \/ (contains(error_lower, "unauthorized") /\ contains(error_lower, "token"))
        \/ contains(error_lower, "unable to locate credentials")
        \/ contains(error_lower, "no credentials")
        \/ contains(error_lower, "failed to load credentials")

\* The messages of humanize_aws_error (lib.rs 355-443)
MsgExpired ==
    "Your AWS session has expired. Please run 'aws sso login' to refresh your credentials."
MsgNoCredentials ==
    "No AWS credentials found. Please run 'aws sso login' or configure your AWS credentials."
MsgAccessDenied ==
    "Access denied. Your AWS credentials don't have permission for this operation."
MsgInvalidCredentials ==
    "Invalid AWS credentials. Please check your AWS configuration."
MsgCredentialsError ==
    "AWS credentials error. Please run 'aws sso login' or check your AWS configuration."
MsgDispatch ==
    "Unable to connect to AWS. This could be a network issue or expired credentials. Try running 'aws sso login'."
MsgConnector ==
    "Unable to connect to AWS. Please check your network connection."
MsgTimeout == "Connection to AWS timed out. Please try again."
MsgDns ==
    "Unable to resolve AWS endpoint. Please check your network connection."
MsgNotFound == "The requested log group was not found."
MsgThrottled == "AWS rate limit exceeded. Please wait a moment and try again."
MsgRegion ==
    "Invalid or missing AWS region. Please check your AWS configuration."
MsgUnavailable ==
    "AWS CloudWatch Logs service is temporarily unavailable. Please try again later."
MsgUnexpected == "An unexpected error occurred while connecting to AWS."

\* lib.rs 435-446: the default branch
Cleaned(text) ==
    LET cleaned ==
            trim_matches(
                replace(replace(replace(text, "DispatchFailure(", ""),
                                "ConnectorError", "Connection error"),
                        "SdkError", ""),
                {"(", ")", ":", " "})
    IN  IF Len(cleaned) = 0 \/ Len(cleaned) < 5 THEN MsgUnexpected ELSE cleaned

\* The "credential" test of the dispatch-failure branch is left out.
humanize_aws_error_dispatch_is_network(text) ==
    LET error_lower == to_lowercase(text)
        has(pat) == contains(error_lower, pat)
    IN  IF \/ has("token has expired") \/ has("sso session")
           \/ has("invalid_grant") \/ has("the sso session")
           \/ has("expired sso token") \/ has("sso token")
        THEN MsgExpired
        ELSE IF \/ has("no credentials") \/ has("missing credentials")
                \/ has("failed to load credentials")
                \/ (has("credential") /\ (has("provider") \/ has("not found")))
                \/ (has("could not find") /\ (has("profile") \/ has("credential")))
        THEN MsgNoCredentials
        ELSE IF \/ has("accessdenied") \/ has("access denied")
                \/ has("not authorized") \/ has("unauthorized")
        THEN MsgAccessDenied
        ELSE IF has("invalid") /\ has("credential")
        THEN MsgInvalidCredentials
        ELSE IF has("dispatch failure") \/ has("dispatchfailure")
        THEN IF has("sso") \/ has("token") \/ has("profile")
             THEN MsgCredentialsError
             ELSE MsgDispatch
        ELSE IF has("connector error") \/ has("hyper::error")
        THEN MsgConnector
        ELSE IF has("timeout") \/ has("timed out")
        THEN MsgTimeout
        ELSE IF has("dns") \/ has("name resolution")
        THEN MsgDns
        ELSE IF has("resourcenotfound") \/ has("does not exist")
        THEN MsgNotFound
        ELSE IF has("throttling") \/ has("rate exceeded")
        THEN MsgThrottled
        ELSE IF has("region") /\ has("not")
        THEN MsgRegion
        ELSE IF has("service") /\ has("unavailable")
        THEN MsgUnavailable
        ELSE Cleaned(text)

\* lib.rs 343-447
humanize_aws_error(text) ==
    LET error_lower == to_lowercase(text)
        has(pat) == contains(error_lower, pat)
    IN  IF \/ has("token has expired") \/ has("sso session")
           \/ has("invalid_grant") \/ has("the sso session")
           \/ has("expired sso token") \/ has("sso token")
        THEN MsgExpired
        ELSE IF \/ has("no credentials") \/ has("missing credentials")
                \/ has("failed to load credentials")
                \/ (has("credential") /\ (has("provider") \/ has("not found")))
                \/ (has("could not find") /\ (has("profile") \/ has("credential")))
        THEN MsgNoCredentials
        ELSE IF \/ has("accessdenied") \/ has("access denied")
                \/ has("not authorized") \/ has("unauthorized")
        THEN MsgAccessDenied
        ELSE IF has("invalid") /\ has("credential")
        THEN MsgInvalidCredentials
        ELSE IF has("dispatch failure") \/ has("dispatchfailure")
        THEN IF \/ has("credential") \/ has("sso") \/ has("token")
                \/ has("profile")
             THEN MsgCredentialsError
             ELSE MsgDispatch
        ELSE IF has("connector error") \/ has("hyper::error")
        THEN MsgConnector
        ELSE IF has("timeout") \/ has("timed out")
        THEN MsgTimeout
        ELSE IF has("dns") \/ has("name resolution")
        THEN MsgDns
        ELSE IF has("resourcenotfound") \/ has("does not exist")
        THEN MsgNotFound
        ELSE IF has("throttling") \/ has("rate exceeded")
        THEN MsgThrottled
        ELSE IF has("region") /\ has("not")
        THEN MsgRegion
        ELSE IF has("service") /\ has("unavailable")
        THEN MsgUnavailable
        ELSE Cleaned(text)

\* Texts a failed describe_log_groups / filter_log_events request is seen with
\* (format!("{}", e), lib.rs 767, 904, 962): an expired SSO session, a denied
\* permission, a transport failure.
RemoteErrors ==
    {"The SSO session has expired",
     "AccessDeniedException: User is not authorized",
     "dispatch failure"}

\* <<error_msg, error_debug, error_source>> of a failed provide_credentials
\* (lib.rs 493-497, 634-638): an expired token named by the debug and source
\* forms only, missing credentials, a provider that is not enabled, a denied
\* role, a timeout.
CredErrors ==
    {<<"an error occurred while loading credentials",
       "ProviderError(LoadTokenError: token has expired)",
       "token has expired">>,
     <<"No credentials in the property bag",
       "CredentialsNotLoaded(no credentials in the property bag)",
       "">>,
     <<"the credential provider was not enabled",
       "CredentialsNotLoaded(provider not enabled)",
       "">>,
     <<"AccessDeniedException: not authorized to assume the role",
       "ProviderError(AccessDeniedException)",
       "">>,
     <<"request has timed out",
       "ProviderTimedOut",
       "">>}

ErrorTexts == RemoteErrors \cup UNION {{e[1], e[2], e[3]} : e \in CredErrors}

\* is_sso_session_expired and humanize_aws_error over the texts above
Classified ==
    [t \in ErrorTexts |-> [expired |-> is_sso_session_expired(t),
                           message |-> humanize_aws_error(t)]]

\* ==================================================================
\* The SSO login (lib.rs 217-254, 320-340)
\* ==================================================================

\* lib.rs 244: attempts of the poll started after `aws sso login`
SsoPollAttempts == 60

\* lib.rs 217-254: cmd.spawn() succeeds (spawned) or fails; what the call
\* leaves behind, in order
open_sso_login_url(profile, spawned) ==
    IF spawned
    THEN <<[effect |-> "aws sso login", profile |-> profile, started |-> TRUE],
           [effect |-> "poll", profile |-> profile,
            max_attempts |-> SsoPollAttempts]>>
    ELSE <<[effect |-> "aws sso login", profile |-> profile, started |-> FALSE]>>

\* lib.rs 320-340
handle_sso_expiration(profile, spawned) ==
    LET p == IF profile # None THEN profile ELSE current_profile
    IN  open_sso_login_url(p, spawned) \o
        <<[effect |-> "emit", event |-> "aws-session-expired"]>>

\* lib.rs 766-772, 903-909, 961-967: what the Err(e) branch of a command does
\* with the text of the failure before it returns
RemoteFailure(text, spawned) ==
    /\ error_msg' = Some(text)
    /\ reauth' = (IF Classified[text].expired
                  THEN reauth \o handle_sso_expiration(None, spawned)
                  ELSE reauth)
    /\ err' = Some(Classified[text].message)

\* The outcomes of cmd.spawn() that matter to a failure with this text.
Spawns(text) == IF Classified[text].expired THEN BOOLEAN ELSE {TRUE}

\* ==================================================================
\* The Err(e) branch of list_log_groups, fetch_logs and
\* fetch_logs_paginated (lib.rs 766-772, 903-909, 961-967) over composed
\* failure texts
\* ==================================================================

\* Phrases of failure texts, in several letter cases: the dispatch-failure
\* wrapper, credential, token, SSO and permission phrasings, transport
\* failures, and texts no rule of humanize_aws_error knows.
Phrases ==
    {"dispatch failure",
     "credentials",
     "Token Has Expired",
     "Failed to refresh token",
     "INVALID_GRANT",
     "The SSO session has expired",
     "Access Denied",
     "invalid credentials",
     "the credential provider was not enabled",
     "connector error",
     "request timed out",
     "SdkError(oops)",
     "Something unforeseen"}

\* A failure text: one phrase, or a phrase wrapping another
\* (format!("{}", e), lib.rs 767, 904, 962).
Texts == Phrases \cup {a \o ": " \o b : a, b \in Phrases}

\* lib.rs 766-772, 903-909, 961-967: the branch on the text in error_msg
ErrBranch(spawned) ==
    /\ error_msg # None
    /\ err = None
    /\ reauth' = (IF is_sso_session_expired(error_msg[1])
                  THEN reauth \o handle_sso_expiration(None, spawned)
                  ELSE reauth)
    /\ err' = Some(humanize_aws_error(error_msg[1]))
    /\ UNCHANGED error_msg
    /\ UNCHANGED <<svars, fvars, lvars, pvars, cvars, qvars, mvars>>

\* A request of one of the three commands has failed with a text.
InitErrBranch ==
    /\ error_msg \in {Some(t) : t \in Texts}
    /\ err = None
    /\ reauth = << >>

InitK ==
    InitSession /\ FetchIdle /\ ListOff /\ PageOff /\ ConnOff /\ PollOff
    /\ InitErrBranch /\ LocksOff

NextClassify == \E spawned \in BOOLEAN : ErrBranch(spawned)

SpecClassify == InitK /\ [][NextClassify]_vars

\* ==================================================================
\* fetch_logs (lib.rs 797-914)
\* ==================================================================

\* ---- bounds of the fetch model ----
MaxPages == 3        \* pages the remote holds for the query
MaxCount == 3        \* largest max_count argument
MaxSizeMb == 2       \* largest max_size_mb argument

\* Events on one page: none, one or two, so that a budget is met exactly on a
\* page boundary or overshot within a page.
PageSizes == 0..2

\* lib.rs 812: mb * 1024 * 1024
MiB == 1048576
\* lib.rs 810: unwrap_or(50_000)
DefaultMaxEvents == 50000
\* lib.rs 813: unwrap_or(100 * 1024 * 1024)
DefaultMaxBytes == 100 * MiB

\* Lengths of the messages the remote returns: empty ones and one-MiB ones, so
\* that the megabyte budgets are reached within a few events.
MsgLens == {0, MiB}
PageSet == UNION {[1..n -> MsgLens] : n \in PageSizes}
Sources == UNION {[1..n -> PageSet] : n \in 1..MaxPages}

\* lib.rs 810
MaxEvents == IF max_count # None THEN max_count[1] ELSE DefaultMaxEvents
\* lib.rs 811-813
MaxBytes == IF max_size_mb # None THEN max_size_mb[1] * MiB ELSE DefaultMaxBytes

\* The remote's answer to a request carrying token t: the events of the page
\* (lib.rs 841-846) and the continuation token (lib.rs 864).
PageOf(t) == IF t = None THEN 1 ELSE t[1]
PageEvents(k) == [i \in 1..Len(source[k]) |-> <<k, i, source[k][i]>>]
PageToken(k) == IF k < Len(source) THEN Some(k + 1) ELSE None

RECURSIVE SumLen(_)
\* lib.rs 849: events.iter().map(|e| e.message.len()).sum()
SumLen(events) ==
    IF events = << >> THEN 0
    ELSE events[1][3] + SumLen(Tail(events))

\* lib.rs 849
NewSize(events) == SumLen(events)

\* Nothing is dropped.
TruncateNothing(events, n) == events

\* lib.rs 868: Vec::truncate
Truncate(events, n) == IF Len(events) > n THEN SubSeq(events, 1, n) ELSE events

\* The progress is reported after the cut to max_events.
LogsProgressCapped(events, size) ==
    [event |-> "logs-progress",
     count |-> IF Len(events) > MaxEvents THEN MaxEvents ELSE Len(events),
     size_bytes |-> size]

\* lib.rs 854-861
LogsProgress(events, size) ==
    [event |-> "logs-progress", count |-> Len(events), size_bytes |-> size]

\* The size is measured again on what is left after the truncation.
LogsTruncatedRemeasured(events, size, reason) ==
    [event |-> "logs-truncated", count |-> Len(events),
     size_bytes |-> SumLen(events), reason |-> reason]

\* lib.rs 870-878 and 886-894
LogsTruncated(events, size, reason) ==
    [event |-> "logs-truncated", count |-> Len(events), size_bytes |-> size,
     reason |-> reason]

\* The size budget is looked at first.
StopReasonSizeFirst(count, size) ==
    IF size >= MaxBytes THEN "size"
    ELSE IF count >= MaxEvents THEN "count"
    ELSE "none"

\* The size budget is never looked at.
StopReasonCountOnly(count, size) ==
    IF count >= MaxEvents THEN "count" ELSE "none"

\* lib.rs 866-897: the count limit is checked first, then the size limit
StopReason(count, size) ==
    IF count >= MaxEvents THEN "count"
    ELSE IF size >= MaxBytes THEN "size"
    ELSE "none"

\* The notification is sent whether or not a token is left.
TruncationNoticeAlways(events, size, reason, token) ==
    <<LogsTruncated(events, size, reason)>>

\* lib.rs 869-879 and 885-895: only when a continuation token is left
TruncationNotice(events, size, reason, token) ==
    IF token # None THEN <<LogsTruncated(events, size, reason)>> ELSE << >>

\* lib.rs 807-816
FetchStart ==
    /\ fpc = "idle" /\ fresult = "none"
    /\ client_lock = 0
    /\ IF client = None
       THEN /\ fresult' = "not_initialized"
            /\ fpc' = "done"
            /\ UNCHANGED client_lock
       ELSE /\ fpc' = "loop"
            /\ client_lock' = 1
            /\ UNCHANGED fresult
    /\ all_events' = << >>
    /\ total_size' = 0
    /\ next_token' = None
    /\ UNCHANGED <<source, max_count, max_size_mb, requests, emitted>>
    /\ UNCHANGED <<client, config, current_profile, AWS_PROFILE, pc, op,
                   effective_profile, call, result, nextCall, profile_call,
                   session0, disturbed>>
    /\ UNCHANGED ovars

\* lib.rs 818-839: request.send()
FetchSend ==
    /\ fpc = "loop"
    /\ requests' = requests + 1
    /\ fpc' = "await"
    /\ UNCHANGED <<source, max_count, max_size_mb, all_events, total_size,
                   next_token, emitted, fresult>>
    /\ UNCHANGED <<svars, ovars>>

\* lib.rs 840-902, 913: Ok(response)
FetchPage ==
    /\ fpc = "await"
    /\ LET k == PageOf(next_token)
           events == PageEvents(k)
           size == total_size + NewSize(events)
           all == all_events \o events
           token == PageToken(k)
           reason == StopReason(Len(all), size)
           kept == IF reason = "count" THEN Truncate(all, MaxEvents) ELSE all
       IN  /\ total_size' = size
           /\ all_events' = kept
           /\ next_token' = token
           /\ emitted' = emitted \o <<LogsProgress(all, size)>> \o
                  (IF reason = "none" THEN << >>
                   ELSE TruncationNotice(kept, size, reason, token))
           /\ IF reason # "none" \/ token = None
              THEN /\ fpc' = "done"
                   /\ fresult' = "ok"
                   /\ client_lock' = 0
              ELSE /\ fpc' = "loop"
                   /\ UNCHANGED <<fresult, client_lock>>
    /\ UNCHANGED <<source, max_count, max_size_mb, requests>>
    /\ UNCHANGED <<client, config, current_profile, AWS_PROFILE, pc, op,
                   effective_profile, call, result, nextCall, profile_call,
                   session0, disturbed>>
    /\ UNCHANGED ovars

\* The failed request is sent again.
FetchErrorRetries(text, spawned) ==
    /\ fpc = "await"
    /\ fpc' = "loop"
    /\ RemoteFailure(text, spawned)
    /\ UNCHANGED <<source, max_count, max_size_mb, all_events, total_size,
                   next_token, requests, emitted, fresult, client_lock>>
    /\ UNCHANGED <<client, config, current_profile, AWS_PROFILE, pc, op,
                   effective_profile, call, result, nextCall, profile_call,
                   session0, disturbed>>
    /\ UNCHANGED <<lvars, pvars, cvars, qvars, mvars>>

\* lib.rs 903-909: Err(e)
FetchError(text, spawned) ==
    /\ fpc = "await"
    /\ fpc' = "done"
    /\ fresult' = "err"
    /\ client_lock' = 0
    /\ RemoteFailure(text, spawned)
    /\ UNCHANGED <<source, max_count, max_size_mb, all_events, total_size,
                   next_token, requests, emitted>>
    /\ UNCHANGED <<client, config, current_profile, AWS_PROFILE, pc, op,
                   effective_profile, call, result, nextCall, profile_call,
                   session0, disturbed>>
    /\ UNCHANGED <<lvars, pvars, cvars, qvars, mvars>>

\* A session as a successful init_aws_client leaves it, or the initial one.
InitFetchSession ==
    /\ \E c \in {None, Some([profile |-> Some("dev"), call |-> 1])} :
          /\ client = c
          /\ config = c
          /\ current_profile = (IF c = None THEN None ELSE Some("dev"))
          /\ profile_call = (IF c = None THEN 0 ELSE 1)
          /\ nextCall = (IF c = None THEN 1 ELSE 2)
    /\ client_lock = 0
    /\ AWS_PROFILE = None
    /\ pc = [p \in Tasks |-> "idle"]
    /\ op = [p \in Tasks |-> "none"]
    /\ effective_profile = [p \in Tasks |-> None]
    /\ call = [p \in Tasks |-> 0]
    /\ result = [p \in Tasks |-> "none"]
    /\ session0 = [p \in Tasks |-> <<None, None, None>>]
    /\ disturbed = [p \in Tasks |-> FALSE]

\* The arguments of one fetch_logs call and the remote it runs against.
InitFetch ==
    /\ source \in Sources
    /\ max_count \in Option(0..MaxCount)
    /\ max_size_mb \in Option(0..MaxSizeMb)
    /\ fpc = "idle"
    /\ all_events = << >>
    /\ total_size = 0
    /\ next_token = None
    /\ requests = 0
    /\ emitted = << >>
    /\ fresult = "none"

NextFetch ==
    \/ FetchStart
    \/ FetchSend
    \/ FetchPage
    \/ \E text \in RemoteErrors : \E spawned \in Spawns(text) :
          FetchError(text, spawned)

InitF ==
    InitFetchSession /\ InitFetch /\ ListOff /\ PageOff /\ ErrIdle /\ ConnOff /\ PollOff
    /\ LocksOff

SpecFetch == InitF /\ [][NextFetch]_vars

\* ==================================================================
\* list_log_groups (lib.rs 732-777)
\* ==================================================================

GroupSources == UNION {[1..n -> PageSizes] : n \in 1..MaxPages}

\* The remote's answer to a describe_log_groups request for page k: the groups
\* of the page (lib.rs 751) and the continuation token (lib.rs 761).
GroupPage(k) == [i \in 1..remote_groups[k] |-> <<k, i>>]
GroupToken(k) == IF k < Len(remote_groups) THEN Some(k + 1) ELSE None

\* The groups of a page are put in front of those of the earlier pages.
PushFront(groups, page) == page \o groups

\* lib.rs 751-759: log_groups.push for every group of the response, in order
Push(groups, page) == groups \o page

\* lib.rs 736-740
ListStart ==
    /\ lpc = "idle" /\ lresult = "none"
    /\ client_lock = 0
    /\ IF client = None
       THEN /\ lresult' = "not_initialized"
            /\ lpc' = "done"
            /\ UNCHANGED client_lock
       ELSE /\ lpc' = "loop"
            /\ client_lock' = 1
            /\ UNCHANGED lresult
    /\ log_groups' = << >>
    /\ list_token' = None
    /\ UNCHANGED <<remote_groups, list_sent>>
    /\ UNCHANGED <<client, config, current_profile, AWS_PROFILE, pc, op,
                   effective_profile, call, result, nextCall, profile_call,
                   session0, disturbed>>
    /\ UNCHANGED <<fvars, pvars, evars, cvars, qvars, mvars>>

\* lib.rs 743-749: request.send()
ListSend ==
    /\ lpc = "loop"
    /\ list_sent' = Append(list_sent, list_token)
    /\ lpc' = "await"
    /\ UNCHANGED <<remote_groups, log_groups, list_token, lresult>>
    /\ UNCHANGED <<svars, fvars, pvars, evars, cvars, qvars, mvars>>

\* The loop goes on after a response without a token.
ListPageGoesOn ==
    /\ lpc = "await"
    /\ LET k == PageOf(list_sent[Len(list_sent)])
           token == GroupToken(k)
       IN  /\ log_groups' = Push(log_groups, GroupPage(k))
           /\ list_token' = token
           /\ lpc' = "loop"
           /\ UNCHANGED <<lresult, client_lock>>
    /\ UNCHANGED <<remote_groups, list_sent>>
    /\ UNCHANGED <<client, config, current_profile, AWS_PROFILE, pc, op,
                   effective_profile, call, result, nextCall, profile_call,
                   session0, disturbed>>
    /\ UNCHANGED <<fvars, pvars, evars, cvars, qvars, mvars>>

\* lib.rs 750-765, 776: Ok(response)
ListPage ==
    /\ lpc = "await"
    /\ LET k == PageOf(list_sent[Len(list_sent)])
           token == GroupToken(k)
       IN  /\ log_groups' = Push(log_groups, GroupPage(k))
           /\ list_token' = token
           /\ IF token = None
              THEN /\ lpc' = "done"
                   /\ lresult' = "ok"
                   /\ client_lock' = 0
              ELSE /\ lpc' = "loop"
                   /\ UNCHANGED <<lresult, client_lock>>
    /\ UNCHANGED <<remote_groups, list_sent>>
    /\ UNCHANGED <<client, config, current_profile, AWS_PROFILE, pc, op,
                   effective_profile, call, result, nextCall, profile_call,
                   session0, disturbed>>
    /\ UNCHANGED <<fvars, pvars, evars, cvars, qvars, mvars>>

\* lib.rs 766-772: Err(e)
ListError(text, spawned) ==
    /\ lpc = "await"
    /\ lpc' = "done"
    /\ lresult' = "err"
    /\ client_lock' = 0
    /\ RemoteFailure(text, spawned)
    /\ UNCHANGED <<remote_groups, log_groups, list_token, list_sent>>
    /\ UNCHANGED <<client, config, current_profile, AWS_PROFILE, pc, op,
                   effective_profile, call, result, nextCall, profile_call,
                   session0, disturbed>>
    /\ UNCHANGED <<fvars, pvars, cvars, qvars, mvars>>

\* One list_log_groups call and the remote it runs against.
InitList ==
    /\ remote_groups \in GroupSources
    /\ lpc = "idle"
    /\ log_groups = << >>
    /\ list_token = None
    /\ list_sent = << >>
    /\ lresult = "none"

\* ==================================================================
\* fetch_logs_paginated (lib.rs 918-969)
\* ==================================================================

\* The request is sent although no client is there.
PageStartUnchecked ==
    /\ ppc = "idle" /\ presult = "none"
    /\ client_lock = 0
    /\ ppc' = "send"
    /\ client_lock' = 1
    /\ UNCHANGED <<cursor, page_sent, page_ret, presult, chained>>
    /\ UNCHANGED <<client, config, current_profile, AWS_PROFILE, pc, op,
                   effective_profile, call, result, nextCall, profile_call,
                   session0, disturbed>>
    /\ UNCHANGED <<fvars, lvars, evars, cvars, qvars, mvars>>

\* lib.rs 927-928
PageStart ==
    /\ ppc = "idle" /\ presult = "none"
    /\ client_lock = 0
    /\ IF client = None
       THEN /\ presult' = "not_initialized"
            /\ ppc' = "done"
            /\ UNCHANGED client_lock
       ELSE /\ ppc' = "send"
            /\ client_lock' = 1
            /\ UNCHANGED presult
    /\ UNCHANGED <<cursor, page_sent, page_ret, chained>>
    /\ UNCHANGED <<client, config, current_profile, AWS_PROFILE, pc, op,
                   effective_profile, call, result, nextCall, profile_call,
                   session0, disturbed>>
    /\ UNCHANGED <<fvars, lvars, evars, cvars, qvars, mvars>>

\* lib.rs 930-950: request.send(), with the caller's token when there is one
PageSend ==
    /\ ppc = "send"
    /\ page_sent' = Append(page_sent, cursor)
    /\ ppc' = "await"
    /\ UNCHANGED <<cursor, page_ret, presult, chained>>
    /\ UNCHANGED <<svars, fvars, lvars, evars, cvars, qvars, mvars>>

\* The continuation token of the response is not handed back.
PageOkDropsToken ==
    /\ ppc = "await"
    /\ LET k == PageOf(cursor)
       IN  page_ret' = <<PageEvents(k), None>>
    /\ presult' = "ok"
    /\ ppc' = "done"
    /\ client_lock' = 0
    /\ UNCHANGED <<cursor, page_sent, chained>>
    /\ UNCHANGED <<client, config, current_profile, AWS_PROFILE, pc, op,
                   effective_profile, call, result, nextCall, profile_call,
                   session0, disturbed>>
    /\ UNCHANGED <<fvars, lvars, evars, cvars, qvars, mvars>>

\* A page is cut to its first event.
PageOkCapped ==
    /\ ppc = "await"
    /\ LET k == PageOf(cursor)
       IN  page_ret' = <<SubSeq(PageEvents(k), 1, 1), PageToken(k)>>
    /\ presult' = "ok"
    /\ ppc' = "done"
    /\ client_lock' = 0
    /\ UNCHANGED <<cursor, page_sent, chained>>
    /\ UNCHANGED <<client, config, current_profile, AWS_PROFILE, pc, op,
                   effective_profile, call, result, nextCall, profile_call,
                   session0, disturbed>>
    /\ UNCHANGED <<fvars, lvars, evars, cvars, qvars, mvars>>

\* lib.rs 951-960: Ok(response)
PageOk ==
    /\ ppc = "await"
    /\ LET k == PageOf(cursor)
       IN  page_ret' = <<PageEvents(k), PageToken(k)>>
    /\ presult' = "ok"
    /\ ppc' = "done"
    /\ client_lock' = 0
    /\ UNCHANGED <<cursor, page_sent, chained>>
    /\ UNCHANGED <<client, config, current_profile, AWS_PROFILE, pc, op,
                   effective_profile, call, result, nextCall, profile_call,
                   session0, disturbed>>
    /\ UNCHANGED <<fvars, lvars, evars, cvars, qvars, mvars>>

\* lib.rs 961-967: Err(e)
PageError(text, spawned) ==
    /\ ppc = "await"
    /\ presult' = "err"
    /\ ppc' = "done"
    /\ client_lock' = 0
    /\ RemoteFailure(text, spawned)
    /\ UNCHANGED <<cursor, page_sent, page_ret, chained>>
    /\ UNCHANGED <<client, config, current_profile, AWS_PROFILE, pc, op,
                   effective_profile, call, result, nextCall, profile_call,
                   session0, disturbed>>
    /\ UNCHANGED <<fvars, lvars, cvars, qvars, mvars>>

\* One fetch_logs_paginated call: the remote and a token an earlier response
\* of that remote has returned, or none.
InitPage ==
    /\ source \in Sources
    /\ cursor \in {None} \cup {Some(k) : k \in 2..Len(source)}
    /\ ppc = "idle"
    /\ page_sent = << >>
    /\ page_ret = << >>
    /\ presult = "none"
    /\ chained = << >>

\* fetch_logs is not running.
FetchOff ==
    /\ max_count = None
    /\ max_size_mb = None
    /\ fpc = "off"
    /\ all_events = << >>
    /\ total_size = 0
    /\ next_token = None
    /\ requests = 0
    /\ emitted = << >>
    /\ fresult = "none"

\* ==================================================================
\* One call of one of the three commands (lib.rs 1073-1075)
\* ==================================================================
InitR ==
    /\ InitFetchSession /\ ErrIdle /\ ConnOff /\ PollOff /\ LocksOff
    /\ \/ InitFetch /\ ListOff /\ PageOff
       \/ FetchOff /\ source = << >> /\ InitList /\ PageOff
       \/ FetchOff /\ ListOff /\ InitPage

NextRemote ==
    \/ FetchStart
    \/ FetchSend
    \/ FetchPage
    \/ \E text \in RemoteErrors : \E spawned \in Spawns(text) :
          FetchError(text, spawned)
    \/ ListStart
    \/ ListSend
    \/ ListPage
    \/ \E text \in RemoteErrors : \E spawned \in Spawns(text) :
          ListError(text, spawned)
    \/ PageStart
    \/ PageSend
    \/ PageOk
    \/ \E text \in RemoteErrors : \E spawned \in Spawns(text) :
          PageError(text, spawned)

SpecRemote == InitR /\ [][NextRemote]_vars

\* One call of one of the three commands against a remote whose messages are
\* all one MiB long: pages of every size and both budgets as in InitR.
InitT ==
    /\ InitR
    /\ \A k \in DOMAIN source : \A i \in DOMAIN source[k] : source[k][i] = MiB

\* tokio runs the command for as long as it can go on, and every request
\* returns.
SpecRemoteFair == InitT /\ [][NextRemote]_vars /\ WF_vars(NextRemote)

\* ==================================================================
\* Paging through a query with fetch_logs_paginated, beside one fetch_logs
\* call for the same query (lib.rs 797-914, 918-969)
\* ==================================================================

\* lib.rs 925, 946-948, 959: the caller keeps the events of an Ok return and
\* calls the command again, the new_token of the return as its next_token.
PageAgain ==
    /\ ppc = "done" /\ presult = "ok"
    /\ page_ret[2] # None
    /\ chained' = chained \o page_ret[1]
    /\ cursor' = page_ret[2]
    /\ ppc' = "idle"
    /\ presult' = "none"
    /\ page_sent' = << >>
    /\ page_ret' = << >>
    /\ UNCHANGED <<svars, fvars, lvars, evars, cvars, qvars, mvars>>

\* One fetch_logs call and a first fetch_logs_paginated call without token,
\* both for the same query against the same remote, whose messages are all
\* one MiB long: pages of every size and both budgets as in InitFetch.
InitE ==
    /\ InitFetchSession /\ ErrIdle /\ ConnOff /\ PollOff /\ LocksOff
    /\ InitFetch /\ ListOff /\ InitPage
    /\ cursor = None
    /\ \A k \in DOMAIN source : \A i \in DOMAIN source[k] : source[k][i] = MiB

NextChain ==
    \/ FetchStart
    \/ FetchSend
    \/ FetchPage
    \/ \E text \in RemoteErrors : \E spawned \in Spawns(text) :
          FetchError(text, spawned)
    \/ PageStart
    \/ PageSend
    \/ PageOk
    \/ \E text \in RemoteErrors : \E spawned \in Spawns(text) :
          PageError(text, spawned)
    \/ PageAgain

SpecChain == InitE /\ [][NextChain]_vars

\* ==================================================================
\* One init_aws_client / reconnect_aws call, step by step
\* (lib.rs 467-587, 593-728)
\* ==================================================================

\* lib.rs 522, 571, 664, 714
ConnMsgExpired ==
    "Your AWS session has expired. Please run 'aws sso login' to refresh."
\* lib.rs 527-530, 669-672
ConnMsgCredentials(text) ==
    "AWS credentials error: " \o text \o
    ". Please run 'aws sso login' or check your AWS configuration."
\* lib.rs 534-537, 676-679
ConnMsgNoProvider ==
    "No AWS credentials configured. Please run 'aws sso login' or configure credentials."
\* lib.rs 579, 722
ConnMsgAccessDenied ==
    "Access denied. Your credentials don't have permission to access CloudWatch Logs."
\* lib.rs 581-584, 723-726
ConnMsgUnable(text) ==
    "Unable to connect to AWS. Please check your network connection. (" \o
    Classified[text].message \o ")"

\* lib.rs 506-508, 647-649
is_expired(e) == \E i \in 1..3 : Classified[e[i]].expired

\* lib.rs 513, 654: the profile uses SSO and the Display form holds
\* "credential", in this case
should_try_sso(e, sso) == is_expired(e) \/ (sso /\ contains(e[1], "credential"))

\* The probe is sent before the credentials are looked at.
ConnectStartProbesFirst(o, hint) ==
    /\ cpc = "idle"
    /\ cop' = o
    /\ c_profile' = (IF o = "init" THEN InitEffectiveProfile(hint)
                     ELSE ReconnectEffectiveProfile(hint))
    /\ cpc' = "probe"
    /\ UNCHANGED <<creds, cred_error, uses_sso, probes, cresult>>
    /\ UNCHANGED <<svars, fvars, lvars, pvars, evars, qvars, mvars>>

\* lib.rs 472-483, 598-605
ConnectStart(o, hint) ==
    /\ cpc = "idle"
    /\ cop' = o
    /\ c_profile' = (IF o = "init" THEN InitEffectiveProfile(hint)
                     ELSE ReconnectEffectiveProfile(hint))
    /\ cpc' = (IF o = "init" THEN "creds" ELSE "clear")
    /\ UNCHANGED <<creds, cred_error, uses_sso, probes, cresult>>
    /\ UNCHANGED <<svars, fvars, lvars, pvars, evars, qvars, mvars>>

\* lib.rs 608-615
ConnectClear ==
    /\ cpc = "clear"
    /\ client_lock = 0
    /\ client' = None
    /\ config' = None
    /\ cpc' = "creds"
    /\ UNCHANGED <<cop, c_profile, creds, cred_error, uses_sso, probes, cresult>>
    /\ UNCHANGED <<current_profile, client_lock, AWS_PROFILE, pc, op,
                   effective_profile, call, result, nextCall, profile_call,
                   session0, disturbed>>
    /\ UNCHANGED <<fvars, lvars, pvars, evars, qvars, mvars>>

\* lib.rs 486, 533-538 and 627, 675-680: config.credentials_provider() is None
ConnectNoProvider ==
    /\ cpc = "creds"
    /\ creds' = "missing"
    /\ cresult' = Some(ConnMsgNoProvider)
    /\ cpc' = "done"
    /\ UNCHANGED <<cop, c_profile, cred_error, uses_sso, probes>>
    /\ UNCHANGED <<svars, fvars, lvars, pvars, evars, qvars, mvars>>

\* lib.rs 487-490, 628-631: provide_credentials() is Ok
ConnectCredsOk ==
    /\ cpc = "creds"
    /\ creds' = "ok"
    /\ cpc' = "probe"
    /\ UNCHANGED <<cop, c_profile, cred_error, uses_sso, probes, cresult>>
    /\ UNCHANGED <<svars, fvars, lvars, pvars, evars, qvars, mvars>>

\* lib.rs 491-531, 632-673: provide_credentials() is Err(e)
ConnectCredsErr(e, sso, spawned) ==
    /\ cpc = "creds"
    /\ creds' = "failed"
    /\ cred_error' = e
    /\ uses_sso' = sso
    /\ IF should_try_sso(e, sso)
       THEN /\ reauth' = reauth \o open_sso_login_url(c_profile, spawned)
            /\ cresult' = Some(ConnMsgExpired)
       ELSE /\ reauth' = reauth
            /\ cresult' = Some(ConnMsgCredentials(e[1]))
    /\ cpc' = "done"
    /\ UNCHANGED <<cop, c_profile, probes, error_msg, err>>
    /\ UNCHANGED <<svars, fvars, lvars, pvars, qvars, mvars>>

\* lib.rs 541-543, 682-684: describe_log_groups().limit(1).send()
ConnectProbeSend ==
    /\ cpc = "probe"
    /\ probes' = probes + 1
    /\ cpc' = "await"
    /\ UNCHANGED <<cop, c_profile, creds, cred_error, uses_sso, cresult>>
    /\ UNCHANGED <<svars, fvars, lvars, pvars, evars, qvars, mvars>>

\* lib.rs 544-561, 685-701: Ok(_), the three stores one after the other
ConnectProbeOk ==
    /\ cpc = "await"
    /\ client_lock = 0
    /\ LET c == [profile |-> c_profile, call |-> nextCall]
       IN  /\ current_profile' = c_profile
           /\ config' = Some(c)
           /\ client' = Some(c)
    /\ profile_call' = nextCall
    /\ nextCall' = nextCall + 1
    /\ cresult' = Some("ok")
    /\ cpc' = "done"
    /\ UNCHANGED <<cop, c_profile, creds, cred_error, uses_sso, probes>>
    /\ UNCHANGED <<client_lock, AWS_PROFILE, pc, op, effective_profile, call,
                   result, session0, disturbed>>
    /\ UNCHANGED <<fvars, lvars, pvars, evars, qvars, mvars>>

\* lib.rs 576-577, 719-720
ProbeAccessDenied(text) ==
    \/ contains(to_lowercase(text), "accessdenied")
    \/ contains(to_lowercase(text), "not authorized")

\* lib.rs 562-585, 702-726: Err(e)
ConnectProbeErr(text, spawned) ==
    /\ cpc = "await"
    /\ error_msg' = Some(text)
    /\ IF Classified[text].expired
       THEN /\ reauth' = reauth \o open_sso_login_url(c_profile, spawned)
            /\ cresult' = Some(ConnMsgExpired)
       ELSE /\ reauth' = reauth
            /\ cresult' = Some(IF ProbeAccessDenied(text)
                               THEN ConnMsgAccessDenied
                               ELSE ConnMsgUnable(text))
    /\ cpc' = "done"
    /\ UNCHANGED <<cop, c_profile, creds, cred_error, uses_sso, probes, err>>
    /\ UNCHANGED <<svars, fvars, lvars, pvars, qvars, mvars>>

\* The session before the call: empty, or as a successful init_aws_client left
\* it.
InitConnectSession ==
    /\ \E c \in {None, Some([profile |-> Some("dev"), call |-> 1])} :
          /\ client = c
          /\ config = c
          /\ current_profile = (IF c = None THEN None ELSE Some("dev"))
          /\ profile_call = (IF c = None THEN 0 ELSE 1)
          /\ nextCall = (IF c = None THEN 1 ELSE 2)
    /\ client_lock = 0
    /\ AWS_PROFILE \in Option(EnvProfiles)
    /\ pc = [p \in Tasks |-> "idle"]
    /\ op = [p \in Tasks |-> "none"]
    /\ effective_profile = [p \in Tasks |-> None]
    /\ call = [p \in Tasks |-> 0]
    /\ result = [p \in Tasks |-> "none"]
    /\ session0 = [p \in Tasks |-> <<None, None, None>>]
    /\ disturbed = [p \in Tasks |-> FALSE]

InitConnect ==
    /\ cpc = "idle"
    /\ cop = "none"
    /\ c_profile = None
    /\ creds = "unchecked"
    /\ cred_error = << >>
    /\ uses_sso = FALSE
    /\ probes = 0
    /\ cresult = None

InitC ==
    InitConnectSession /\ InitConnect /\ FetchIdle /\ ListOff /\ PageOff
    /\ ErrIdle /\ PollOff /\ LocksOff

NextConnect ==
    \/ \E o \in {"init", "reconnect"} : \E hint \in Option(Profiles) :
          ConnectStart(o, hint)
    \/ ConnectClear
    \/ ConnectNoProvider
    \/ ConnectCredsOk
    \/ \E e \in CredErrors : \E sso \in BOOLEAN :
          \E spawned \in (IF should_try_sso(e, sso) THEN BOOLEAN ELSE {TRUE}) :
             ConnectCredsErr(e, sso, spawned)
    \/ ConnectProbeSend
    \/ ConnectProbeOk
    \/ \E text \in RemoteErrors : \E spawned \in Spawns(text) :
          ConnectProbeErr(text, spawned)

SpecConnect == InitC /\ [][NextConnect]_vars

\* ==================================================================
\* poll_for_credentials_and_refresh (lib.rs 190-212)
\* ==================================================================

\* ---- bound of the poll model ----
\* largest max_attempts besides the 60 of open_sso_login_url
MaxAttempts == 3

\* lib.rs 203: check_credentials_valid on the check after `checks` earlier ones
check_credentials_valid == valid_at # 0 /\ checks + 1 >= valid_at

\* The last value of the range is left out.
PollNextExclusive ==
    /\ qpc = "loop"
    /\ IF attempt + 1 < max_attempts
       THEN /\ attempt' = attempt + 1
            /\ qpc' = "sleep"
            /\ UNCHANGED poll_emitted
       ELSE /\ qpc' = "timed_out"
            /\ poll_emitted' = Append(poll_emitted, "debug-log")
            /\ UNCHANGED attempt
    /\ UNCHANGED <<max_attempts, valid_at, checks>>
    /\ UNCHANGED <<svars, fvars, lvars, pvars, evars, cvars, mvars>>

\* lib.rs 198, 211: `for attempt in 1..=max_attempts`, then the timeout log
PollNext ==
    /\ qpc = "loop"
    /\ IF attempt < max_attempts
       THEN /\ attempt' = attempt + 1
            /\ qpc' = "sleep"
            /\ UNCHANGED poll_emitted
       ELSE /\ qpc' = "timed_out"
            /\ poll_emitted' = Append(poll_emitted, "debug-log")
            /\ UNCHANGED attempt
    /\ UNCHANGED <<max_attempts, valid_at, checks>>
    /\ UNCHANGED <<svars, fvars, lvars, pvars, evars, cvars, mvars>>

\* lib.rs 199-201: the two seconds have passed
PollSleep ==
    /\ qpc = "sleep"
    /\ poll_emitted' = Append(poll_emitted, "debug-log")
    /\ qpc' = "check"
    /\ UNCHANGED <<max_attempts, valid_at, attempt, checks>>
    /\ UNCHANGED <<svars, fvars, lvars, pvars, evars, cvars, mvars>>

\* The loop goes on after the event.
PollCheckGoesOn ==
    /\ qpc = "check"
    /\ checks' = checks + 1
    /\ poll_emitted' = (IF check_credentials_valid
                        THEN poll_emitted \o <<"debug-log", "aws-session-refreshed">>
                        ELSE poll_emitted)
    /\ qpc' = "loop"
    /\ UNCHANGED <<max_attempts, valid_at, attempt>>
    /\ UNCHANGED <<svars, fvars, lvars, pvars, evars, cvars, mvars>>

\* lib.rs 203-209
PollCheck ==
    /\ qpc = "check"
    /\ checks' = checks + 1
    /\ IF check_credentials_valid
       THEN /\ poll_emitted' =
                  poll_emitted \o <<"debug-log", "aws-session-refreshed">>
            /\ qpc' = "succeeded"
       ELSE /\ qpc' = "loop"
            /\ UNCHANGED poll_emitted
    /\ UNCHANGED <<max_attempts, valid_at, attempt>>
    /\ UNCHANGED <<svars, fvars, lvars, pvars, evars, cvars, mvars>>

\* A poll as tokio::spawn starts it (lib.rs 243-245), or with a small
\* max_attempts, and the check from which the credentials are valid.
InitPoll ==
    /\ qpc = "loop"
    /\ max_attempts \in (0..MaxAttempts) \cup {SsoPollAttempts}
    /\ valid_at \in 0..(max_attempts + 1)
    /\ attempt = 0
    /\ checks = 0
    /\ poll_emitted = << >>

InitQ ==
    InitSession /\ FetchIdle /\ ListOff /\ PageOff /\ ErrIdle /\ ConnOff
    /\ InitPoll /\ LocksOff

NextPoll ==
    \/ PollNext
    \/ PollSleep
    \/ PollCheck

SpecPoll == InitQ /\ [][NextPoll]_vars

\* The tokio runtime keeps running the spawned task: the sleep ends and the
\* credential check returns.
SpecPollFair == SpecPoll /\ WF_vars(NextPoll)

\* ==================================================================
\* Properties of the session
\* ==================================================================

\* Task p's command o returns an error in this step.
ReturnsError(p, o) ==
    /\ op[p] = o
    /\ pc[p] # "done" /\ pc'[p] = "done"
    /\ result'[p] \in Errors

\* C1: in every reachable state the client and the config are both set or
\* both unset.
C1_BothOrNeither == (client = None) <=> (config = None)

\* C2 (as claimed): whenever a reconnect returns an error, client and config
\* are unset and the stored identity is the one it found when it began,
\* whatever ran in between.
C2_FailedReconnectClears ==
    [][\A p \in Tasks : ReturnsError(p, "reconnect") =>
          /\ client' = None
          /\ config' = None
          /\ current_profile' = session0[p][3]]_vars

\* C2 (amended): whenever a reconnect returns an error and no other task wrote
\* a session field while it ran, client and config are unset and the stored
\* identity is the one it found when it began.
C2_FailedReconnectClearsUndisturbed ==
    [][\A p \in Tasks : (ReturnsError(p, "reconnect") /\ ~disturbed[p]) =>
          /\ client' = None
          /\ config' = None
          /\ current_profile' = session0[p][3]]_vars

\* C2 witness: a reconnect that began with a live client has returned an
\* error, the session is empty, and a list/fetch issued afterwards got the
\* NotInitialized error.
C2_Witness ==
    \E p, q \in Tasks :
        /\ op[p] = "reconnect" /\ pc[p] = "done" /\ result[p] \in Errors
        /\ ~disturbed[p]
        /\ session0[p][1] # None
        /\ client = None /\ config = None
        /\ current_profile = session0[p][3] /\ current_profile # None
        /\ op[q] = "read" /\ pc[q] = "done" /\ result[q] = "not_initialized"

\* C3: a connect that returns an error has written no session field: none of
\* its steps before the probe succeeded changes client, config or identity,
\* and when no other task wrote meanwhile the triple at its return is the
\* triple at its start.
C3_FailedConnectIsFrame ==
    [][\A p \in Tasks :
          /\ (op[p] = "init" /\ pc[p] \in {"creds", "probe"} /\ pc'[p] # pc[p])
                => Session' = Session
          /\ (ReturnsError(p, "init") /\ ~disturbed[p])
                => Session' = session0[p]]_vars

\* C3 witness: a connect made on a live session has returned an error and the
\* session is the one it found.
C3_Witness ==
    \E p \in Tasks :
        /\ op[p] = "init" /\ pc[p] = "done" /\ result[p] \in Errors
        /\ ~disturbed[p]
        /\ session0[p][1] # None /\ session0[p][2] # None
        /\ Session = session0[p]

\* C4: a set client comes with the config the same invocation stored.
C4_ClientMatchesConfig == client # None => config = client

\* C5: once every caller's connect/reconnect has returned successfully, the
\* identity, the config and the client were stored by one and the same
\* invocation.
C5_LastWriterWinsWhole ==
    (\A p \in Tasks : op[p] \in {"init", "reconnect"} /\ pc[p] = "done"
                        /\ result[p] = "ok")
    => /\ client # None
       /\ config = client
       /\ profile_call = client[1].call

\* ==================================================================
\* Properties of fetch_logs
\* ==================================================================

RECURSIVE Received(_)
\* The events of pages 1..k of the remote, in arrival order.
Received(k) == IF k = 0 THEN << >> ELSE Received(k - 1) \o PageEvents(k)

\* Responses the call has received and processed so far.
Responses == IF fpc = "await" \/ fresult = "err" THEN requests - 1 ELSE requests

CountBreach(k) == Len(Received(k)) >= MaxEvents
SizeBreach(k) == SumLen(Received(k)) >= MaxBytes

HasTruncated(reason) ==
    \E i \in DOMAIN emitted :
        emitted[i].event = "logs-truncated" /\ emitted[i].reason = reason

C7_StopsAtFirstBreach ==
    \A k \in 1..Responses : (CountBreach(k) \/ SizeBreach(k)) => requests = k

\* C7 witness: the call has returned after its first page, which passed the
\* size budget only, while the remote held a further page.
C7_Witness ==
    /\ fresult = "ok" /\ requests = 1 /\ Len(source) > 1
    /\ SizeBreach(1) /\ ~CountBreach(1)

C8_WitnessBoth ==
    /\ fresult = "ok" /\ CountBreach(requests) /\ SizeBreach(requests)
    /\ HasTruncated("count")

C10_CountTruncationSize ==
    \A i \in DOMAIN emitted :
        (emitted[i].event = "logs-truncated" /\ emitted[i].reason = "count") =>
            /\ emitted[i].size_bytes = SumLen(Received(requests))
            /\ emitted[i].count = MaxEvents

\* C10 witness: the notification was sent on the second page and the dropped
\* events had bytes: the size reported exceeds the size of what was returned.
C10_Witness ==
    /\ fresult = "ok" /\ requests = 2
    /\ \E i \in DOMAIN emitted :
          /\ emitted[i].event = "logs-truncated" /\ emitted[i].reason = "count"
          /\ emitted[i].size_bytes > SumLen(all_events)
          /\ emitted[i].count = Len(all_events)

\* C11: a successful fetch_logs that stopped on a page which brought the count
\* to max_events or the bytes to max_bytes (in particular one that dropped
\* received events from its result) has sent a logs-truncated notification.
C11_LimitHitIsNotified ==
    (fresult = "ok" /\ (CountBreach(requests) \/ SizeBreach(requests))) =>
        (HasTruncated("count") \/ HasTruncated("size"))

\* ==================================================================
\* Properties of list_log_groups, fetch_logs and fetch_logs_paginated
\* ==================================================================

RECURSIVE AllGroups(_)
\* The groups of pages 1..k of the remote, in page order.
AllGroups(k) == IF k = 0 THEN << >> ELSE AllGroups(k - 1) \o GroupPage(k)

\* C12: a list_log_groups call that returned Ok against a remote of n pages
\* has sent exactly n requests, the first without a token and each later one
\* with the token of the previous response, and returns the groups of the n
\* pages concatenated in page order; no call ever sends more than n requests.
C12_ListAll ==
    /\ Len(list_sent) <= Len(remote_groups)
    /\ lresult = "ok" =>
          /\ Len(list_sent) = Len(remote_groups)
          /\ list_sent[1] = None
          /\ \A i \in 2..Len(list_sent) : list_sent[i] = GroupToken(i - 1)
          /\ log_groups = AllGroups(Len(remote_groups))

\* C12 witness: a remote of three pages, none of them empty, was listed.
C12_Witness ==
    /\ lresult = "ok"
    /\ Len(remote_groups) = 3
    /\ \A k \in 1..3 : remote_groups[k] > 0
    /\ Len(list_sent) = 3

\* C13: once a page request of list_log_groups or fetch_logs has failed, the
\* call has returned, what it returned is an Err with a message and nothing
\* else, and no request is sent from then on.
C13_FailureAborts ==
    /\ [](error_msg # None =>
            /\ err # None
            /\ lpc # "off" => (lpc = "done" /\ lresult = "err")
            /\ fpc # "off" => (fpc = "done" /\ fresult = "err"))
    /\ [][error_msg # None =>
            (requests' = requests /\ list_sent' = list_sent)]_vars

\* C13 witness: fetch_logs failed on its second request, after the first page
\* had brought events.
C13_Witness ==
    /\ fresult = "err" /\ requests = 2
    /\ all_events # << >>
    /\ err # None

\* The same for list_log_groups.
C13_WitnessList ==
    /\ lresult = "err" /\ Len(list_sent) = 2
    /\ log_groups # << >>

\* C14: a list_log_groups, fetch_logs or fetch_logs_paginated call made while
\* the client is unset returns "AWS client not initialized" and has sent no
\* request, emitted no event and started no login.
C14_NotInitialized ==
    client = None =>
        /\ lpc \notin {"off", "idle"} => lresult = "not_initialized"
        /\ fpc \notin {"off", "idle"} => fresult = "not_initialized"
        /\ ppc \notin {"off", "idle"} => presult = "not_initialized"
        /\ requests = 0 /\ list_sent = << >> /\ page_sent = << >>
        /\ emitted = << >> /\ reauth = << >>
        /\ error_msg = None /\ err = None

\* C14 witness: fetch_logs_paginated has returned the error on an empty
\* session.
C14_Witness ==
    /\ client = None
    /\ ppc = "done" /\ presult = "not_initialized"
    /\ page_sent = << >>

\* The same for list_log_groups and fetch_logs.
C14_WitnessList == client = None /\ lpc = "done" /\ lresult = "not_initialized"
C14_WitnessFetch == client = None /\ fpc = "done" /\ fresult = "not_initialized"

\* The login for the stored profile was attempted and the event emitted.
ReauthDone ==
    /\ \E i \in DOMAIN reauth :
          /\ reauth[i].effect = "aws sso login"
          /\ reauth[i].profile = current_profile
    /\ \E i \in DOMAIN reauth :
          /\ reauth[i].effect = "emit"
          /\ reauth[i].event = "aws-session-expired"

\* C15: when a command has returned the error of a failed request, then (a) if
\* the text of the failure is classified Expired, the login was attempted for
\* the stored profile, aws-session-expired was emitted and the error returned
\* is the Expired message, whether or not the login process started; and (b)
\* a login was attempted or an event emitted only if the text is classified
\* Expired.
C15_ReauthIffExpired ==
    error_msg # None =>
        LET expired == humanize_aws_error(error_msg[1]) = MsgExpired
        IN  /\ expired => (ReauthDone /\ err = Some(MsgExpired))
            /\ reauth # << >> => expired

\* ==================================================================
\* Properties of init_aws_client / reconnect_aws
\* ==================================================================

\* One of the three forms of the failure is classified Expired.
ClassifiedExpired(e) == \E i \in 1..3 : Classified[e[i]].message = MsgExpired

\* C16: when the credential check of init_aws_client / reconnect_aws has
\* failed, the login was started and the Expired error returned exactly when
\* one of the three forms of the failure is classified Expired or the profile
\* uses SSO and the failure holds "credential"; in every other case the
\* credentials error is returned and no login was started.
C16_CredentialFailure ==
    (cpc = "done" /\ creds = "failed") =>
        LET trigger == \/ ClassifiedExpired(cred_error)
                       \/ (uses_sso /\ contains(cred_error[1], "credential"))
        IN  /\ trigger <=> (reauth # << >> /\ cresult = Some(ConnMsgExpired))
            /\ ~trigger =>
                  /\ reauth = << >>
                  /\ cresult = Some(ConnMsgCredentials(cred_error[1]))

\* C17: the probe request is sent only once the credential provider was found
\* and has produced credentials, and at most once; a call whose provider is
\* missing or whose credentials fail returns its error with no request sent.
C17_ProbeAfterCredentials ==
    /\ probes <= 1
    /\ probes > 0 => creds = "ok"
    /\ cpc \in {"probe", "await"} => creds = "ok"
    /\ creds \in {"missing", "failed"} =>
          /\ cpc = "done" /\ probes = 0
          /\ cresult # None /\ cresult # Some("ok")

\* C17 witness: a reconnect whose credentials were produced has sent its probe
\* and returned the error of the probe.
C17_Witness ==
    /\ cop = "reconnect" /\ cpc = "done"
    /\ creds = "ok" /\ probes = 1
    /\ error_msg # None

\* A call whose credentials failed has returned with no request sent.
C17_WitnessFailed ==
    /\ cpc = "done" /\ creds = "failed" /\ probes = 0
    /\ cresult = Some(ConnMsgExpired)

\* C18: for every login attempted for a profile, the credential poll for that
\* profile was spawned, whether or not the login process could be started.
C18_PollAlwaysStarted ==
    \A i \in DOMAIN reauth :
        reauth[i].effect = "aws sso login" =>
            \E j \in DOMAIN reauth :
                /\ reauth[j].effect = "poll"
                /\ reauth[j].profile = reauth[i].profile

\* ==================================================================
\* Properties of the credential poll
\* ==================================================================

RECURSIVE Count(_, _)
\* How often event ev was emitted.
Count(events, ev) ==
    IF events = << >> THEN 0
    ELSE (IF events[1] = ev THEN 1 ELSE 0) + Count(Tail(events), ev)

Refreshed == Count(poll_emitted, "aws-session-refreshed")

\* C19: a poll whose credentials are invalid on the first k-1 checks and valid
\* on check k, k <= max_attempts, never makes more than k checks, emits
\* aws-session-refreshed exactly once, at check k, does not time out, and
\* once it has emitted the event it has stopped with that event as the last
\* thing emitted.
C19_StopsAtFirstValid ==
    valid_at \in 1..max_attempts =>
        /\ checks <= valid_at
        /\ qpc # "timed_out"
        /\ Refreshed = (IF qpc = "succeeded" THEN 1 ELSE 0)
        /\ checks = valid_at => qpc = "succeeded"
        /\ qpc = "succeeded" =>
              /\ checks = valid_at
              /\ poll_emitted[Len(poll_emitted)] = "aws-session-refreshed"

\* C19 witness: the poll started by open_sso_login_url saw three invalid
\* checks, then a valid one, and has stopped.
C19_Witness ==
    /\ max_attempts = SsoPollAttempts
    /\ valid_at = 4
    /\ qpc = "succeeded" /\ checks = 4
    /\ Refreshed = 1

\* C20: every poll stops; one whose credentials never become valid within its
\* max_attempts checks makes exactly max_attempts checks before it stops, stops
\* timed out, and emits no aws-session-refreshed.
C20_PollTerminates ==
    /\ <>(qpc \in {"succeeded", "timed_out"})
    /\ [](valid_at \notin 1..max_attempts =>
            /\ checks <= max_attempts
            /\ Refreshed = 0
            /\ qpc # "succeeded"
            /\ qpc = "timed_out" => checks = max_attempts)

\* C20 witness: the poll started by open_sso_login_url has timed out after 60
\* checks.
C20_Witness ==
    /\ max_attempts = SsoPollAttempts
    /\ valid_at = 0
    /\ qpc = "timed_out" /\ checks = SsoPollAttempts
    /\ Refreshed = 0

\* ==================================================================
\* Properties of the identity resolution
\* ==================================================================

\* The precedence: the explicit hint, else the stored identity, else the
\* environment variable, else unset.
HintStoredEnv(hint) ==
    IF hint # None THEN hint
    ELSE IF current_profile # None THEN current_profile ELSE AWS_PROFILE

\* C21: init_aws_client and reconnect_aws both resolve the effective identity
\* as hint, else stored identity, else environment variable, else unset; a
\* call without a hint on a session that stores P uses P.
C21_SamePrecedence ==
    [][\A o \in {"init", "reconnect"} : \A hint \in Option(Profiles) :
          ConnectStart(o, hint) => c_profile' = HintStoredEnv(hint)]_vars

\* ==================================================================
\* Properties of the error texts
\* ==================================================================

\* The text holds pattern pat, in any letter case.
Mentions(text, pat) == contains(to_lowercase(text), pat)

\* Token, SSO-session, refresh-token or invalid_grant phrasing.
ExpiredPhrasing(text) ==
    \/ Mentions(text, "token has expired")
    \/ Mentions(text, "sso session")
    \/ Mentions(text, "sso token")
    \/ Mentions(text, "refresh token")
    \/ Mentions(text, "invalid_grant")

\* C22: a failure whose text holds token, SSO-session, refresh-token or
\* invalid_grant phrasing, in any letter case, is returned to the caller as
\* Expired.
C22_ExpiredPhrasing ==
    (err # None /\ ExpiredPhrasing(error_msg[1])) => err = Some(MsgExpired)

\* The text is a dispatch failure that mentions credentials.
DispatchCredential(text) ==
    /\ Mentions(text, "dispatch failure")
    /\ Mentions(text, "credential")

\* C23 (as claimed): every text that holds "dispatch failure" and
\* "credential" is classified as the credentials error of the
\* dispatch-failure rule, whatever else it holds.
C23_DispatchCredentialAlways ==
    (err # None /\ DispatchCredential(error_msg[1])) =>
        err = Some(MsgCredentialsError)

\* Phrases by which a text that mentions "credential" meets one of the rules
\* that come before the dispatch-failure rule.
EarlierPhrases ==
    {"token has expired", "sso session", "invalid_grant", "sso token",
     "no credentials", "missing credentials", "failed to load credentials",
     "provider", "not found", "could not find",
     "accessdenied", "access denied", "not authorized", "unauthorized",
     "invalid"}

\* The outcomes of the rules up to the dispatch-failure rule with credentials.
CredentialClass ==
    {MsgExpired, MsgNoCredentials, MsgAccessDenied, MsgInvalidCredentials,
     MsgCredentialsError}

\* C23 (amended): a text that holds "dispatch failure" and "credential" is
\* never classified as a network failure; it gets the outcome of the first
\* earlier rule it meets (expired, no credentials, access denied, invalid
\* credentials) and, when it meets none, the credentials error of the
\* dispatch-failure rule.
C23_DispatchCredential ==
    (err # None /\ DispatchCredential(error_msg[1])) =>
        /\ err[1] \in CredentialClass
        /\ err[1] \notin {MsgDispatch, MsgConnector, MsgTimeout, MsgDns}
        /\ err[1] = MsgCredentialsError <=>
              ~ \E pat \in EarlierPhrases : Mentions(error_msg[1], pat)

\* C23 witness: a dispatch failure that wraps nothing but a credentials
\* failure was classified by the dispatch-failure rule.
C23_Witness ==
    /\ error_msg = Some("dispatch failure: credentials")
    /\ err = Some(MsgCredentialsError)

\* A dispatch failure that mentions credentials met an earlier rule.
C23_WitnessEarlier ==
    /\ error_msg = Some("dispatch failure: invalid credentials")
    /\ err = Some(MsgInvalidCredentials)

\* C24: the error a command returns holds the raw text of the failure only
\* when humanize_aws_error took its default branch on that text; this for
\* the three fetch/list commands and for both steps of init_aws_client /
\* reconnect_aws.
C24_OnlyClassified ==
    /\ (err # None /\ error_msg # None /\ contains(err[1], error_msg[1])) =>
          humanize_aws_error(error_msg[1]) = Cleaned(error_msg[1])
    /\ (cresult # None /\ error_msg # None
        /\ contains(cresult[1], error_msg[1])) =>
          humanize_aws_error(error_msg[1]) = Cleaned(error_msg[1])
    /\ (cresult # None /\ cred_error # << >>
        /\ contains(cresult[1], cred_error[1])) =>
          humanize_aws_error(cred_error[1]) = Cleaned(cred_error[1])

\* ==================================================================
\* Properties of fetch_logs_paginated
\* ==================================================================

\* C25: a fetch_logs_paginated call on an initialized session sends exactly
\* one request, with the cursor it was given; it emits no logs-progress and no
\* logs-truncated event; when the request succeeds it returns every event of
\* the page the cursor names, in order, and the cursor of the response.
C25_OnePage ==
    (ppc # "off" /\ client # None) =>
        /\ Len(page_sent) = (IF ppc \in {"await", "done"} THEN 1 ELSE 0)
        /\ \A i \in DOMAIN page_sent : page_sent[i] = cursor
        /\ emitted = << >>
        /\ presult = "ok" =>
              LET k == IF cursor = None THEN 1 ELSE cursor[1]
              IN  /\ Len(page_ret[1]) = Len(source[k])
                  /\ \A i \in 1..Len(source[k]) :
                        page_ret[1][i] = <<k, i, source[k][i]>>
                  /\ page_ret[2] = (IF k = Len(source) THEN None
                                    ELSE Some(k + 1))
        /\ presult # "ok" => page_ret = << >>

\* C25 witness: a call with the cursor of the second page of three has
\* returned its two one-MiB events and the cursor of the third page.
C25_Witness ==
    /\ client # None
    /\ cursor = Some(2) /\ page_sent = <<Some(2)>>
    /\ presult = "ok"
    /\ Len(page_ret[1]) = 2
    /\ page_ret[1][1][3] = MiB /\ page_ret[1][2][3] = MiB
    /\ page_ret[2] = Some(3)

\* ==================================================================
\* Properties of the three mutexes
\* ==================================================================

\* The place of a field in the order identity, config, client.
Rank(f) ==
    CASE f = "current_profile" -> 1
      [] f = "config" -> 2
      [] OTHER -> 3

\* C26: no command locks the client before the config or the identity, or the
\* config before the identity: the fields a command has locked so far are in
\* the order identity, config, client.
C26_FixedOrder ==
    \A p \in Tasks : \A i, j \in DOMAIN touched[p] :
        i < j => Rank(touched[p][i]) <= Rank(touched[p][j])

\* C27: while a list/fetch call is about to send a request or waits for its
\* response, another call that asks for the client mutex, to send its own
\* requests or to clear or store the client, gets it.
C27_NotSerialized ==
    \A p, q \in Tasks :
        (p # q /\ pc[p] \in {"send", "await"}) =>
            /\ pc[q] = "reader_lock_client" => ENABLED ReaderLockClient(q)
            /\ pc[q] = "clear_lock_client" => ENABLED ClearLockClient(q)
            /\ pc[q] = "store_lock_client" => ENABLED StoreLockClient(q)

\* Task p waits for a mutex.
Waiting(p) ==
    pc[p] \in {"read_lock_profile", "clear_lock_client", "clear_lock_config",
               "store_lock_profile", "store_lock_config", "store_lock_client",
               "reader_lock_client", "reauth_lock_profile"}

\* C29: a command that waits for one of the three mutexes gets it: no
\* interleaving of the five commands and of the reauth handling leaves a task
\* waiting for ever.
C29_NoDeadlock == \A p \in Tasks : Waiting(p) ~> ~Waiting(p)

\* C29 witness: a list/fetch call holds the guard of client and waits for the
\* mutex of current_profile, which a reconnect_aws holds that will ask for
\* the client mutex next.
C29_Witness ==
    /\ pc[1] = "reauth_lock_profile" /\ client_lock = 1
    /\ pc[2] = "read_profile" /\ profile_lock = 2

\* ==================================================================
\* Properties of the notifications of fetch_logs
\* ==================================================================

IsProgress(e) == e.event = "logs-progress"
IsTruncated(e) == e.event = "logs-truncated"

\* C28: fetch_logs has emitted one logs-progress per response received, the
\* k-th carrying the number and the message bytes of all events of the first k
\* pages, so that counts and sizes never decrease; at most one logs-truncated
\* was emitted, after every logs-progress.
C28_ProgressPerPage ==
    LET progress == SelectSeq(emitted, IsProgress)
    IN  /\ Len(progress) = Responses
        /\ \A k \in DOMAIN progress :
              /\ progress[k].count = Len(Received(k))
              /\ progress[k].size_bytes = SumLen(Received(k))
        /\ \A k \in DOMAIN progress : \A j \in DOMAIN progress :
              k < j => /\ progress[k].count <= progress[j].count
                       /\ progress[k].size_bytes <= progress[j].size_bytes
        /\ Len(SelectSeq(emitted, IsTruncated)) <= 1
        /\ \A i \in DOMAIN emitted : \A j \in DOMAIN emitted :
              (IsTruncated(emitted[i]) /\ IsProgress(emitted[j])) => j < i

\* C28 witness: two pages were received, the second overshooting max_count;
\* two growing progress notifications are followed by the truncation.
C28_Witness ==
    /\ fresult = "ok" /\ requests = 2
    /\ Len(emitted) = 3
    /\ IsProgress(emitted[1]) /\ emitted[1].count = 2
    /\ IsProgress(emitted[2]) /\ emitted[2].count = 4
    /\ emitted[2].size_bytes > emitted[1].size_bytes
    /\ IsTruncated(emitted[3]) /\ emitted[3].count = 3

\* ==================================================================
\* Termination of list_log_groups and fetch_logs
\* ==================================================================

\* C30: against a remote whose last page carries no continuation token and
\* whose requests all return, list_log_groups and fetch_logs return; as soon
\* as a response without a token was received the call has returned, and a
\* call that has returned sends no request.
C30_Terminates ==
    /\ <>(lpc \in {"off", "done"} /\ fpc \in {"off", "done"})
    /\ []((lpc # "await" /\ list_sent # << >> /\ list_token = None) =>
             lpc = "done")
    /\ []((Responses >= 1 /\ next_token = None) => fpc = "done")
    /\ [][(lpc = "done" => list_sent' = list_sent)
          /\ (fpc = "done" => requests' = requests)]_vars

\* C30 witness: list_log_groups has returned Ok after the third response, the
\* first without a token.
C30_Witness ==
    /\ lpc = "done" /\ lresult = "ok"
    /\ Len(list_sent) = 3 /\ list_token = None

\* fetch_logs has returned Ok within its budgets after the last page.
C30_WitnessFetch ==
    /\ fpc = "done" /\ fresult = "ok"
    /\ requests = Len(source) /\ requests = 3
    /\ next_token = None
    /\ \A i \in DOMAIN emitted : emitted[i].event = "logs-progress"

\* The chain of fetch_logs_paginated calls has ended: it began without a
\* token (InitE), every later call carried the token of the return before
\* it (PageAgain), and the last call returned no token.
ChainEnded == ppc = "done" /\ presult = "ok" /\ page_ret[2] = None

\* The events the calls of the chain returned, concatenated in call order.
Concatenated == chained \o page_ret[1]

\* No page of the remote brings fetch_logs to one of its two budgets.
NoBudgetReached ==
    \A k \in 1..Len(source) : ~CountBreach(k) /\ ~SizeBreach(k)

\* C31: for one query against a remote that answers deterministically, the
\* events returned by fetch_logs_paginated called first without a token and
\* then again with each returned token until none is returned are, when
\* concatenated, exactly the events fetch_logs returns for that query when
\* neither of its budgets is reached.
C31_SameEvents ==
    (fpc = "done" /\ fresult = "ok" /\ ChainEnded /\ NoBudgetReached) =>
        Concatenated = all_events

\* Both have returned: a chain of at least two calls with events before and
\* in the last page, and a fetch_logs call with a count budget it stayed under.
C31_Witness ==
    /\ fpc = "done" /\ fresult = "ok"
    /\ ChainEnded /\ NoBudgetReached
    /\ cursor # None
    /\ chained # << >> /\ page_ret[1] # << >>
    /\ max_count # None
    /\ Len(all_events) >= 2

====
